---------------------------- MODULE Spec2Model ----------------------------
(***************************************************************************)
(* Notification scheduling and delivery core of wardrowbe                  *)
(* (backend/app/workers/notifications.py, backend/app/utils/redis_lock.py).*)
(*                                                                         *)
(* Several identical arq worker processes run the same cron jobs against   *)
(* one shared datastore and one shared Redis.  Every `await` of a job is a *)
(* point where the other workers, and the wall clock, may take steps, so   *)
(* each job is cut into one action per awaited call.                       *)
(*                                                                         *)
(* Time is counted in seconds since a Monday 00:00:00 UTC, so that         *)
(* datetime.weekday(), .hour, .minute and strftime("%Y%m%d%H%M") are       *)
(* computed from it the way Python computes them.                          *)
(***************************************************************************)
EXTENDS Integers, Sequences, FiniteSets, Bags, TLC

---------------------------------------------------------------------------
(* Bounds of the model *)

\* Number of half-minute steps the wall clock takes after StartTime.
MaxTicks == 4

\* Number of half-minute steps the clock takes while the retries run.
RetryTicks == 1
RetryCycles == 2

\* max_attempts of the Notification rows.
MaxAttempts == 3

\* Number of cron times of check_wash_reminders after the first.
WashTicks == 3

\* The most items to wash a user has.
MaxItems == 6

---------------------------------------------------------------------------
(* Calendar arithmetic of datetime *)

SecondsPerMinute == 60
MinutesPerHour == 60
DaysPerWeek == 7
SecondsPerHour == SecondsPerMinute * MinutesPerHour
SecondsPerDay == 24 * SecondsPerHour
MinutesPerDay == 24 * MinutesPerHour
MinutesPerWeek == DaysPerWeek * MinutesPerDay

\* None, for a nullable timestamp column.
NULL == -1

Abs(x) == IF x < 0 THEN -x ELSE x

\* datetime.weekday(): Monday is 0, Sunday is 6.
Weekday(t) == (t \div SecondsPerDay) % DaysPerWeek
\* datetime.time().hour and .minute
Hour(t) == (t % SecondsPerDay) \div SecondsPerHour
Minute(t) == (t % SecondsPerHour) \div SecondsPerMinute
\* The calendar date of t (the %Y%m%d part of strftime), as a day number.
DateOf(t) == t \div SecondsPerDay

---------------------------------------------------------------------------
(* The worker fleet, the Schedule table and the clock *)

Workers == {"w1", "w2"}
Schedules == {"s1", "s2"}

\* The wall clock ticks in half minutes: a scan runs at hh:mm:00 or hh:mm:30.
TickSeconds == SecondsPerMinute \div 2
\* Sunday 23:59:00 UTC of the first week.
StartTime == 6 * SecondsPerDay + 23 * SecondsPerHour + 59 * SecondsPerMinute
EndTime == StartTime + MaxTicks * TickSeconds
\* Tuesday 00:15:00 UTC, a cron time of check_wash_reminders.
StartWash == SecondsPerDay + 15 * SecondsPerMinute
EndWash == StartWash + WashTicks * 6 * SecondsPerHour

VARIABLES
    now,        \* the wall clock, datetime.now(UTC)
    schedules,  \* the persisted (committed) Schedule rows
    queue,      \* the arq queue: the bag of jobs it has accepted
    cron_ran,   \* per worker: the minute of its last check_scheduled_notifications run
    scan,       \* per worker: the locals of check_scheduled_notifications
    triggered,  \* history: the schedules some finished scan has marked and enqueued
    notifications, \* the persisted (committed) Notification rows
    locks,      \* the Redis lock keys: holder and expiry of each
    retry,      \* per worker: the locals and session of retry_failed_notifications
    dirty,      \* per user: the ClothingItem rows with needs_wash and not is_archived
    settings,   \* per user: the enabled NotificationSettings rows, in the order selected
    reminders,  \* the persisted wash_reminder Notification rows, in order of creation
    wash,       \* per worker: the locals of check_wash_reminders
    send,       \* the locals of a send_notification job
    proc,       \* the locals of the process_scheduled_notification run in progress
    ran,        \* history: the runs of process_scheduled_notification that have ended
    ctx         \* the arq context of one worker, as workers/db.py uses it

scanVars == <<schedules, queue, cron_ran, scan, triggered>>
retryVars == <<notifications, retry>>
washVars == <<dirty, settings, reminders, wash>>
vars == <<now, schedules, queue, cron_ran, scan, triggered, notifications, locks, retry,
          dirty, settings, reminders, wash, send, proc, ran, ctx>>

---------------------------------------------------------------------------
(* check_scheduled_notifications *)

TriggerToleranceMinutes == 1
DedupHours == 1

Tomorrow(day) == (day + 1) % DaysPerWeek

\* A WHERE clause without `Schedule.enabled == True`.
DayRuleIgnoresEnabled(sch, t) ==
    \/ (~sch.notify_day_before /\ sch.day_of_week = Weekday(t))
    \/ (sch.notify_day_before /\ sch.day_of_week = Tomorrow(Weekday(t)))

\* The WHERE clause of the select.
DayRuleMatches(sch, t) ==
    /\ sch.enabled
    /\ \/ (~sch.notify_day_before /\ sch.day_of_week = Weekday(t))
       \/ (sch.notify_day_before /\ sch.day_of_week = Tomorrow(Weekday(t)))

ScheduleMinutes(sch) == sch.notification_time[1] * MinutesPerHour + sch.notification_time[2]
CurrentMinutes(t) == Hour(t) * MinutesPerHour + Minute(t)

\* `if abs(schedule_minutes - current_minutes) > 1: continue`
InTriggerWindow(sch, t) ==
    ~(Abs(ScheduleMinutes(sch) - CurrentMinutes(t)) > TriggerToleranceMinutes)

Threshold(t) == t - DedupHours * SecondsPerHour

\* A dedup test that lets a marker exactly one hour old through.
TriggeredRecentlyStrict(sch, t) ==
    sch.last_triggered_at # NULL /\ sch.last_triggered_at > Threshold(t)

\* `if schedule.last_triggered_at and schedule.last_triggered_at >= threshold: continue`
TriggeredRecently(sch, t) ==
    sch.last_triggered_at # NULL /\ sch.last_triggered_at >= Threshold(t)

\* now_utc.strftime("%Y%m%d%H%M")
MinuteKey(t) == <<DateOf(t), Hour(t), Minute(t)>>

\* A key that leaves the minute out.
JobIdWithoutMinute(s, t) == <<"sched", s, <<0, 0, 0>>>>

\* A key built from the scan time to the second.
JobIdToTheSecond(s, t) == <<"sched", s, <<DateOf(t), Hour(t), Minute(t), t % SecondsPerMinute>>>>

\* f"sched:{schedule.id}:{minute_key}"
JobId(s, t) == <<"sched", s, MinuteKey(t)>>

\* A scan that enqueues without committing its marks first.
AfterMarkingSkipsCommit(to_enqueue) == "enqueue"

\* Where the scan goes after the marking loop: `if to_enqueue: await db.commit()`.
AfterMarking(to_enqueue) == IF to_enqueue # {} THEN "commit" ELSE "enqueue"

\* arq's enqueue_job: a job whose _job_id the queue already holds is a no-op.
Accept(q, job) ==
    IF \E j \in BagToSet(q) : j.job_id = job.job_id THEN q ELSE q (+) SetToBag({job})

\* The minute a time falls in, counted from the epoch.
MinuteIndex(t) == t \div SecondsPerMinute

NoResult == [status |-> "none"]

IdleScan ==
    [pc |-> "idle", now_utc |-> NULL, schedules |-> {}, read |-> [s \in Schedules |-> NULL],
     in_window |-> {}, to_enqueue |-> {}, pending |-> {}, committed |-> FALSE, sent |-> {},
     enqueue_failures |-> 0, result |-> NoResult]

\* cron(check_scheduled_notifications, minute=None): a worker starts the job once
\* in every minute.  Lines 246-251: open the session and read the clock.
ScanStart(w) ==
    /\ scan[w].pc = "idle"
    /\ cron_ran[w] # MinuteIndex(now)
    /\ cron_ran' = [cron_ran EXCEPT ![w] = MinuteIndex(now)]
    /\ scan' = [scan EXCEPT ![w] = [IdleScan EXCEPT !.pc = "select", !.now_utc = now]]
    /\ UNCHANGED <<now, schedules, queue, triggered, notifications, locks, retry, washVars, send, proc, ran, ctx>>

\* Lines 253-298: the select, then the marking loop on the session's objects.
ScanSelect(w) ==
    /\ scan[w].pc = "select"
    /\ LET t == scan[w].now_utc
           selected == {s \in Schedules : DayRuleMatches(schedules[s], t)}
           near == {s \in selected : InTriggerWindow(schedules[s], t)}
           due == {s \in near : ~TriggeredRecently(schedules[s], t)}
       IN scan' = [scan EXCEPT ![w].pc = AfterMarking(due),
                               ![w].schedules = selected,
                               ![w].in_window = near,
                               ![w].read = [s \in Schedules |-> schedules[s].last_triggered_at],
                               ![w].to_enqueue = due,
                               ![w].pending = due]
    /\ UNCHANGED <<now, schedules, queue, cron_ran, triggered, notifications, locks, retry, washVars, send, proc, ran, ctx>>

\* A mark that never reaches the row.
MarkedNowhere(sch, t) == sch

\* `schedule.last_triggered_at = now_utc`
Marked(sch, t) == [sch EXCEPT !.last_triggered_at = t]

\* Line 302: the commit persists last_triggered_at = now_utc of every marked schedule.
ScanCommit(w) ==
    /\ scan[w].pc = "commit"
    /\ schedules' = [s \in Schedules |->
                        IF s \in scan[w].to_enqueue
                        THEN Marked(schedules[s], scan[w].now_utc)
                        ELSE schedules[s]]
    /\ scan' = [scan EXCEPT ![w].pc = "enqueue", ![w].committed = TRUE]
    /\ UNCHANGED <<now, queue, cron_ran, triggered, notifications, locks, retry, washVars, send, proc, ran, ctx>>

\* A failed commit that persists the marks all the same.
AfterFailedCommitPersists(rows, marks, t) ==
    [s \in DOMAIN rows |-> IF s \in marks THEN Marked(rows[s], t) ELSE rows[s]]

\* The persisted rows after a commit that raised: the transaction never
\* happened.
AfterFailedCommit(rows, marks, t) == rows

\* Line 302 raising: lines 328-332 return {"error": ...}; closing the session
\* drops the marks, which were never persisted.
ScanCommitFails(w) ==
    /\ scan[w].pc = "commit"
    /\ scan' = [scan EXCEPT ![w].pc = "idle", ![w].result = [status |-> "error"]]
    /\ schedules' = AfterFailedCommit(schedules, scan[w].to_enqueue, scan[w].now_utc)
    /\ UNCHANGED <<now, queue, cron_ran, triggered, notifications, locks, retry, washVars, send, proc, ran, ctx>>

\* What the `except Exception` around enqueue_job does to the Schedule rows: nothing.
OnEnqueueFailure(rows, s, w) == rows

\* A failure that ends the enqueue loop.
RemainingAfterFailureNone(pending, s) == {}

\* Which schedules are still to be enqueued after the call for s failed.
RemainingAfterFailure(pending, s) == pending \ {s}

\* Lines 310-320: one pass of the enqueue loop; the call is accepted, ignored as a
\* duplicate, or raises.
ScanEnqueue(w, s, raises) ==
    /\ scan[w].pc = "enqueue"
    /\ s \in scan[w].pending
    /\ LET id == JobId(s, scan[w].now_utc)
           job == [function |-> "process_scheduled_notification", schedule_id |-> s,
                   job_id |-> id]
       IN /\ queue' = IF raises THEN queue ELSE Accept(queue, job)
          /\ schedules' = IF raises THEN OnEnqueueFailure(schedules, s, w) ELSE schedules
          /\ scan' = [scan EXCEPT
                        ![w].pending = IF raises THEN RemainingAfterFailure(@, s) ELSE @ \ {s},
                        ![w].sent = @ \cup {[schedule |-> s, job_id |-> id, raised |-> raises]},
                        ![w].enqueue_failures = IF raises THEN @ + 1 ELSE @]
    /\ UNCHANGED <<now, cron_ran, triggered, notifications, locks, retry, washVars, send, proc, ran, ctx>>

\* Lines 322-326 and 331-332: the loop is over, the scan returns its counts.
ScanReturn(w) ==
    /\ scan[w].pc = "enqueue"
    /\ scan[w].pending = {}
    /\ scan' = [scan EXCEPT ![w].pc = "idle",
                            ![w].result = [status |-> "ok",
                                           checked |-> Cardinality(scan[w].schedules),
                                           enqueued |-> Cardinality(scan[w].to_enqueue)]]
    /\ triggered' = triggered \cup scan[w].to_enqueue
    /\ UNCHANGED <<now, schedules, queue, cron_ran, notifications, locks, retry, washVars, send, proc, ran, ctx>>

---------------------------------------------------------------------------
(* distributed_lock: a Redis lock with a TTL *)

Notifs == {"n1", "n2"}

\* f"notif-retry:{notification.id}"
RetryKey(n) == <<"notif-retry", n>>
\* "wash-reminders-cron"
WashKey == <<"wash-reminders-cron", "all">>
LockKeys == {RetryKey(n) : n \in Notifs} \cup {WashKey}

NoWorker == "nobody"
Free == [owner |-> NoWorker, expires_at |-> NULL]

\* A key that outlives its TTL.
ExpireNever(ls, t) == ls

\* Redis drops a key whose TTL has run out.
Expire(ls, t) ==
    [k \in DOMAIN ls |-> IF ls[k].owner # NoWorker /\ ls[k].expires_at <= t THEN Free ELSE ls[k]]

\* An acquire that succeeds whoever holds the key.
CanAcquireAlways(ls, k) == TRUE

\* lock.acquire() with blocking_timeout=0: SET NX PX, true when the key was free.
CanAcquire(ls, k) == ls[k].owner = NoWorker
Acquired(ls, k, w, t, timeout) == [ls EXCEPT ![k] = [owner |-> w, expires_at |-> t + timeout]]

\* A release that deletes the key whoever owns it.
ReleasedByAnyone(ls, k, w) == [ls EXCEPT ![k] = Free]

\* lock.release(): deletes the key when w's token still holds it; otherwise
\* LockNotOwnedError, which distributed_lock logs and swallows.
Released(ls, k, w) == IF ls[k].owner = w THEN [ls EXCEPT ![k] = Free] ELSE ls

\* A block whose error leaves distributed_lock without the release.
ExitBlockNoFinally(ls, k, w, raised) == IF raised THEN ls ELSE Released(ls, k, w)

\* Lines 33-39 of redis_lock.py: `try: yield  finally: if acquired: release`,
\* whether the block has ended or raised.
ExitBlock(ls, k, w, raised) == Released(ls, k, w)

---------------------------------------------------------------------------
(* retry_failed_notifications *)

\* distributed_lock(..., timeout=30, blocking_timeout=0)
RetryLockTimeout == 30

\* None, for a nullable text column.
NONE == "None"

Fields == {"status", "attempts", "max_attempts", "last_attempt_at", "sent_at", "error_message"}

\* An object the session has not loaded.
NotLoaded ==
    [status |-> "none", attempts |-> 0, max_attempts |-> 0, last_attempt_at |-> NULL,
     sent_at |-> NULL, error_message |-> NONE]

\* The WHERE clause of the select: retrying with attempts < max_attempts.
Retryable(row) == row.status = "retrying" /\ row.attempts < row.max_attempts

\* A re-read whose result is not looked at.
StillRetryingUnchecked(row) == TRUE

\* `if notification.status != NotificationStatus.retrying: continue`
StillRetrying(row) == row.status = "retrying"

\* The orders in which the select may return the rows of S.
Orders(S) == {q \in UNION {[1..Cardinality(S) -> S]} : \A x \in S : \E i \in DOMAIN q : q[i] = x}

\* What dispatcher.retry_notification may do: return SENT, return a failure with
\* or without an error text, or raise.
SendOutcomes == {"sent", "failed", "failed_no_error", "raised"}
ResultError(outcome) == IF outcome = "failed" THEN "send failed" ELSE NONE
\* str(e) of a raised error
RaisedText == "send raised"

\* An `or` that keeps a missing text missing.
OrElseKeepsNone(x, default) == x

\* `x or default` on an optional text
OrElse(x, default) == IF x = NONE THEN default ELSE x

\* A result handling that tests the attempts before the success.
AfterSendMaxFirst(obj, outcome, t) ==
    IF obj.attempts >= obj.max_attempts
    THEN [obj EXCEPT !.status = "failed", !.error_message = "Max retries exceeded"]
    ELSE IF outcome = "sent" THEN [obj EXCEPT !.status = "sent", !.sent_at = t]
    ELSE [obj EXCEPT !.error_message = ResultError(outcome)]

\* A result handling that gives up at the first failure.
AfterSendFailsAtOnce(obj, outcome, t) ==
    IF outcome = "sent"
    THEN [obj EXCEPT !.status = "sent", !.sent_at = t]
    ELSE [obj EXCEPT !.status = "failed", !.error_message = "send failed"]

\* Lines 121-129: what the result of the send does to the session's object.
AfterSend(obj, outcome, t) ==
    IF outcome = "sent"
    THEN [obj EXCEPT !.status = "sent", !.sent_at = t]
    ELSE IF obj.attempts >= obj.max_attempts
    THEN [obj EXCEPT !.status = "failed",
                     !.error_message = OrElse(ResultError(outcome), "Max retries exceeded")]
    ELSE [obj EXCEPT !.error_message = ResultError(outcome)]

\* session.commit(): the unit of work writes, for every loaded object, the
\* attributes whose value differs from the one loaded, and nothing else.
Flushed(rows, obj, loaded) ==
    [n \in Notifs |->
        [a \in Fields |-> IF obj[n][a] # loaded[n][a] THEN obj[n][a] ELSE rows[n][a]]]

IdleRetry ==
    [pc |-> "idle", batch |-> <<>>, i |-> 0,
     obj |-> [n \in Notifs |-> NotLoaded], loaded |-> [n \in Notifs |-> NotLoaded],
     retried |-> 0, raised |-> FALSE, result |-> NoResult, ran |-> NULL,
     reread |-> [n \in Notifs |-> "none"], read_attempts |-> [n \in Notifs |-> 0],
     sends |-> {}, last_outcome |-> "none",
     locked |-> {},          \* history: the records whose lock this run acquired
     lost |-> {},            \* history: the records whose release found the lock not owned
     skipped_locked |-> {},  \* history: the records lines 133-138 skipped as locked
     acquired_at |-> NULL]   \* history: when this run last acquired a lock

\* The notification the loop is at.
Current(w) == retry[w].batch[retry[w].i]

\* Where the loop goes after the record at index i: the next record, or lines
\* 146-154: the return, which closes the session and drops its objects.
Onward(r) ==
    IF r.i < Len(r.batch)
    THEN [r EXCEPT !.pc = "acquire", !.i = @ + 1, !.raised = FALSE, !.last_outcome = "none"]
    ELSE [IdleRetry EXCEPT !.ran = r.ran,
                           !.result = [status |-> "ok", retried |-> r.retried]]

\* A contended lock that ends the job with an error.
OnContendedAborts(r) ==
    [IdleRetry EXCEPT !.ran = r.ran, !.result = [status |-> "error", retried |-> 0]]

\* Lines 133-138: `except TimeoutError: continue`.
OnContended(r) == Onward(r)

\* cron(retry_failed_notifications, minute={0, 5, ..., 55})
RetryCronMinutes == {m \in 0..(MinutesPerHour - 1) : m % 5 = 0}

\* A worker starts the job once in every minute of the cron.  Lines 84-103: a
\* new session selects the notifications to retry; with none the job returns
\* {"retried": 0}.
RetryStart(w) ==
    /\ retry[w].pc = "idle"
    /\ Minute(now) \in RetryCronMinutes
    /\ retry[w].ran # MinuteIndex(now)
    /\ \E batch \in Orders({n \in Notifs : Retryable(notifications[n])}) :
         LET fresh == [IdleRetry EXCEPT
                          !.ran = MinuteIndex(now),
                          !.batch = batch,
                          !.obj = [n \in Notifs |->
                                      IF Retryable(notifications[n]) THEN notifications[n]
                                      ELSE NotLoaded],
                          !.loaded = [n \in Notifs |->
                                      IF Retryable(notifications[n]) THEN notifications[n]
                                      ELSE NotLoaded]]
         IN retry' = [retry EXCEPT ![w] =
                         IF batch = <<>>
                         THEN [fresh EXCEPT !.batch = <<>>,
                                            !.result = [status |-> "ok", retried |-> 0]]
                         ELSE [fresh EXCEPT !.pc = "acquire", !.i = 1]]
    /\ UNCHANGED <<now, scanVars, notifications, locks, washVars, send, proc, ran, ctx>>

\* Lines 108-110: the non-blocking acquire succeeds.
RetryAcquire(w) ==
    /\ retry[w].pc = "acquire"
    /\ CanAcquire(locks, RetryKey(Current(w)))
    /\ locks' = Acquired(locks, RetryKey(Current(w)), w, now, RetryLockTimeout)
    /\ retry' = [retry EXCEPT ![w].pc = "refresh", ![w].locked = @ \cup {Current(w)},
                              ![w].acquired_at = now]
    /\ UNCHANGED <<now, scanVars, notifications, washVars, send, proc, ran, ctx>>

\* Lines 30-32 and 133-138: the key is taken, distributed_lock raises
\* TimeoutError and the loop continues with the next record.
RetryContended(w) ==
    /\ retry[w].pc = "acquire"
    /\ ~CanAcquire(locks, RetryKey(Current(w)))
    /\ retry' = [retry EXCEPT ![w] =
                    OnContended([retry[w] EXCEPT !.skipped_locked = @ \cup {Current(w)}])]
    /\ UNCHANGED <<now, scanVars, notifications, locks, washVars, send, proc, ran, ctx>>

\* Lines 112-117: the re-read inside the lock; a record no longer retrying is
\* left alone, otherwise attempts and last_attempt_at are set on the object.
RetryRefresh(w) ==
    /\ retry[w].pc = "refresh"
    /\ LET n == Current(w)
           row == notifications[n]
       IN retry' = [retry EXCEPT
             ![w].loaded[n] = row,
             ![w].reread[n] = row.status,
             ![w].read_attempts[n] = row.attempts,
             ![w].obj[n] = IF StillRetrying(row)
                           THEN [row EXCEPT !.attempts = @ + 1, !.last_attempt_at = now]
                           ELSE row,
             ![w].pc = IF StillRetrying(row) THEN "send" ELSE "release"]
    /\ UNCHANGED <<now, scanVars, notifications, locks, washVars, send, proc, ran, ctx>>

\* Lines 119-129: the send and the bookkeeping of its result; a raised error
\* leaves the block at once.
RetrySend(w, outcome) ==
    /\ retry[w].pc = "send"
    /\ LET n == Current(w)
       IN retry' = [retry EXCEPT
             ![w].sends = @ \cup {n},
             ![w].last_outcome = outcome,
             ![w].obj[n] = IF outcome = "raised" THEN @ ELSE AfterSend(@, outcome, now),
             ![w].retried = IF outcome = "sent" THEN @ + 1 ELSE @,
             ![w].raised = (outcome = "raised"),
             ![w].pc = IF outcome = "raised" THEN "release" ELSE "commit"]
    /\ UNCHANGED <<now, scanVars, notifications, locks, washVars, send, proc, ran, ctx>>

\* Line 131: the commit inside the lock.
RetryCommit(w) ==
    /\ retry[w].pc = "commit"
    /\ notifications' = Flushed(notifications, retry[w].obj, retry[w].loaded)
    /\ retry' = [retry EXCEPT ![w].loaded = retry[w].obj, ![w].pc = "release"]
    /\ UNCHANGED <<now, scanVars, locks, washVars, send, proc, ran, ctx>>

\* Lines 34-39 of redis_lock.py: leaving the block releases the lock, and a
\* lock no longer owned is only logged; then the loop goes on, or a
\* TimeoutError reaches lines 133-138, or another error the handler of line 139.
RetryRelease(w) ==
    /\ retry[w].pc = "release"
    /\ locks' = ExitBlock(locks, RetryKey(Current(w)), w,
                          retry[w].raised \/ retry[w].last_outcome = "timeout")
    /\ LET n == Current(w)
           r == [retry[w] EXCEPT
                    !.lost = IF locks[RetryKey(n)].owner # w THEN @ \cup {n} ELSE @,
                    !.skipped_locked = IF retry[w].last_outcome = "timeout"
                                       THEN @ \cup {n} ELSE @]
       IN retry' = [retry EXCEPT ![w] =
                       IF r.raised THEN [r EXCEPT !.pc = "handler"] ELSE Onward(r)]
    /\ UNCHANGED <<now, scanVars, notifications, washVars, send, proc, ran, ctx>>

\* Lines 139-144: the handler of an error raised inside the block commits a
\* failed status when the attempts are used up, and otherwise does nothing.
RetryHandler(w) ==
    /\ retry[w].pc = "handler"
    /\ LET n == Current(w)
           o == retry[w].obj[n]
           spent == o.attempts >= o.max_attempts
           obj2 == IF spent
                   THEN [retry[w].obj EXCEPT ![n] = [o EXCEPT !.status = "failed",
                                                             !.error_message = RaisedText]]
                   ELSE retry[w].obj
       IN /\ notifications' = IF spent THEN Flushed(notifications, obj2, retry[w].loaded)
                              ELSE notifications
          /\ retry' = [retry EXCEPT ![w] =
                          Onward([retry[w] EXCEPT !.obj = obj2,
                                                  !.loaded = IF spent THEN obj2 ELSE @])]
    /\ UNCHANGED <<now, scanVars, locks, washVars, send, proc, ran, ctx>>

\* Line 131 raising: nothing is persisted, the error leaves the block (the
\* lock is released) and reaches the handler of line 139.
RetryCommitFails(w) ==
    /\ retry[w].pc = "commit"
    /\ retry' = [retry EXCEPT ![w].raised = TRUE, ![w].pc = "release"]
    /\ UNCHANGED <<now, scanVars, notifications, locks, washVars, send, proc, ran, ctx>>

\* Line 144 raising inside the handler: the error leaves the loop and reaches
\* lines 149-154, which roll back, return {"retried": 0, "error": ...} and
\* close the session.
RetryHandlerCommitFails(w) ==
    /\ retry[w].pc = "handler"
    /\ retry[w].obj[Current(w)].attempts >= retry[w].obj[Current(w)].max_attempts
    /\ retry' = [retry EXCEPT ![w] =
                    [IdleRetry EXCEPT !.ran = retry[w].ran,
                                      !.result = [status |-> "error", retried |-> 0]]]
    /\ UNCHANGED <<now, scanVars, notifications, locks, washVars, send, proc, ran, ctx>>

\* Lines 112, 119 and 131 raising the builtin TimeoutError (a datastore call
\* or the send timing out): the error leaves the block, the lock is released,
\* and `except TimeoutError` of line 133 takes it.
RetryTimesOut(w) ==
    /\ retry[w].pc \in {"refresh", "send", "commit"}
    /\ retry[w].last_outcome # "timeout"
    /\ retry' = [retry EXCEPT ![w].last_outcome = "timeout", ![w].raised = FALSE,
                              ![w].sends = IF retry[w].pc = "send"
                                           THEN @ \cup {Current(w)} ELSE @,
                              ![w].pc = "release"]
    /\ UNCHANGED <<now, scanVars, notifications, locks, washVars, send, proc, ran, ctx>>

\* cron(..., minute={0, 5, ..., 55}): the minutes between two runs of the job.
RetryEvery == 5
\* Monday 00:00:00 UTC, a cron minute of the retries, and the last one of the run.
StartCycles == StartTime + SecondsPerMinute
EndCycles == StartCycles + RetryCycles * RetryEvery * SecondsPerMinute

\* The clock reaches the next cron minute of the retries once every worker
\* has run the job of this one.
RetryCycleTick ==
    /\ now < EndCycles
    /\ \A w \in Workers : retry[w].pc = "idle" /\ retry[w].ran = MinuteIndex(now)
    /\ now' = now + RetryEvery * SecondsPerMinute
    /\ locks' = Expire(locks, now')
    /\ UNCHANGED <<scanVars, retryVars, washVars, send, proc, ran, ctx>>

\* The wall clock advances.
Tick ==
    /\ now < EndTime
    /\ now' = now + TickSeconds
    /\ locks' = Expire(locks, now')
    /\ UNCHANGED <<scanVars, retryVars, washVars, send, proc, ran, ctx>>

---------------------------------------------------------------------------
(* check_wash_reminders *)

Users == {"u1", "u2"}

\* distributed_lock("wash-reminders-cron", timeout=600, blocking_timeout=0)
WashLockTimeout == 600
\* timedelta(days=1)
DedupDays == 1
\* items[:5]
SummaryItems == 5
\* cron(check_wash_reminders, minute=15, hour={0, 6, 12, 18})
WashCronMinute == 15
WashCronHours == {0, 6, 12, 18}
WashPeriod == 6 * SecondsPerHour

\* The channel kinds the job knows how to send to.
ChannelKinds == {"ntfy", "email", "expo_push"}

Min(a, b) == IF a < b THEN a ELSE b

\* `i.name or i.type` for the first five items
ItemNames(items) ==
    [k \in 1..Min(SummaryItems, Len(items)) |-> OrElse(items[k].name, items[k].type)]

\* A suffix that starts at the fifth item.
MoreFromFive(count) ==
    IF count >= SummaryItems THEN <<" and ", count - SummaryItems, " more">> ELSE <<>>

\* `if count > 5: summary += f" and {count - 5} more"`
More(count) ==
    IF count > SummaryItems THEN <<" and ", count - SummaryItems, " more">> ELSE <<>>

\* ", ".join(item_names), then the suffix
Summary(items) == [names |-> ItemNames(items), suffix |-> More(Len(items))]

\* f"{count} item{'s' if count != 1 else ''} need washing: {summary}"
Body(items) ==
    [count |-> Len(items), noun |-> IF Len(items) # 1 THEN "items" ELSE "item",
     summary |-> Summary(items)]

NoBody == [count |-> 0, noun |-> "items", summary |-> [names |-> <<>>, suffix |-> <<>>]]

\* A dedup test that never finds a reminder.
RecentReminderNever(rows, user, t) == FALSE

\* Lines 389-401: a wash_reminder row of the user created in the last day.
RecentReminder(rows, user, t) ==
    \E k \in DOMAIN rows :
        rows[k].user = user /\ rows[k].created_at >= t - DedupDays * SecondsPerDay

\* A loop that goes on after a channel has succeeded.
StopNever(sent) == FALSE

\* `if sent: break`
StopAt(sent) == sent

\* A record that is always written as sent.
RecordStatusAlwaysSent(sent) == "sent"

\* NotificationStatus.sent if sent else NotificationStatus.failed
RecordStatus(sent) == IF sent THEN "sent" ELSE "failed"

\* Lines 462-474: the Notification row of one user's reminder.
ReminderRow(user, r, t) ==
    [user |-> user, channel |-> r.sent_channel, status |-> RecordStatus(r.sent),
     item_count |-> r.body.count, body |-> r.body,
     sent_at |-> IF r.sent THEN t ELSE NULL,
     error_message |-> IF r.sent THEN NONE ELSE "All channels failed",
     created_at |-> t]

IdleWash ==
    [pc |-> "idle", ran |-> NULL, order |-> <<>>, u |-> 0, channels |-> <<>>, c |-> 0,
     sent |-> FALSE, sent_channel |-> "unknown", body |-> NoBody, tried |-> <<>>,
     notified |-> 0, due |-> {}, log |-> [x \in Users |-> <<>>], result |-> NoResult,
     delivered |-> {}]   \* history: the users a channel has answered with success

\* A worker between two runs, or one whose process died.
Resting == {"idle", "crashed"}

\* The user the loop of line 374 is at.
Owner(w) == wash[w].order[wash[w].u]

\* Where the loop goes after a user: the next user, or the return.
WashNext(r) ==
    IF r.u < Len(r.order) THEN [r EXCEPT !.pc = "user", !.u = @ + 1]
    ELSE [r EXCEPT !.pc = "return"]

\* A contended lock that lets the job run all the same.
LockHeldRunsAnyway(r, t) == [IdleWash EXCEPT !.pc = "select", !.ran = t]

\* Lines 342-344: `except TimeoutError: return {"notified": 0, "skipped": "lock_held"}`
LockHeld(r, t) ==
    [IdleWash EXCEPT !.ran = t,
                     !.result = [status |-> "skipped", notified |-> 0, skipped |-> "lock_held"]]

\* The cron of check_wash_reminders is due and w has not run it yet.
WashCronDue(w) ==
    /\ wash[w].pc = "idle"
    /\ Minute(now) = WashCronMinute /\ Hour(now) \in WashCronHours
    /\ wash[w].ran # now

\* Lines 339-341: the non-blocking acquire of the global lock succeeds.
WashAcquire(w) ==
    /\ WashCronDue(w)
    /\ CanAcquire(locks, WashKey)
    /\ locks' = Acquired(locks, WashKey, w, now, WashLockTimeout)
    /\ wash' = [wash EXCEPT ![w] = [IdleWash EXCEPT !.pc = "select", !.ran = now]]
    /\ UNCHANGED <<now, scanVars, retryVars, dirty, settings, reminders, send, proc, ran, ctx>>

\* Lines 342-344: the lock is held, the job returns at once.
WashLockHeld(w) ==
    /\ WashCronDue(w)
    /\ ~CanAcquire(locks, WashKey)
    /\ wash' = [wash EXCEPT ![w] = LockHeld(wash[w], now)]
    /\ UNCHANGED <<now, scanVars, retryVars, locks, dirty, settings, reminders, send, proc, ran, ctx>>

\* Lines 348-372: the select of the items to wash, grouped by owner; with none
\* the job returns {"notified": 0} and leaves the lock.
WashSelect(w) ==
    /\ wash[w].pc = "select"
    /\ LET owners == {u \in Users : dirty[u] # <<>>}
       IN IF owners = {}
          THEN /\ wash' = [wash EXCEPT ![w] =
                              [IdleWash EXCEPT !.ran = wash[w].ran,
                                               !.result = [status |-> "ok", notified |-> 0]]]
               /\ locks' = Released(locks, WashKey, w)
          ELSE /\ \E order \in Orders(owners) :
                     wash' = [wash EXCEPT ![w].pc = "user", ![w].order = order, ![w].u = 1]
               /\ locks' = locks
    /\ UNCHANGED <<now, scanVars, retryVars, dirty, settings, reminders, send, proc, ran, ctx>>

\* Lines 376-410: the user's enabled channels, the dedup test, and the text.
WashUser(w) ==
    /\ wash[w].pc = "user"
    /\ LET user == Owner(w)
           channels == settings[user]
       IN wash' = [wash EXCEPT ![w] =
             IF channels = <<>> \/ RecentReminder(reminders, user, now)
             THEN WashNext(wash[w])
             ELSE [wash[w] EXCEPT !.pc = "send", !.channels = channels, !.c = 1,
                                  !.sent = FALSE, !.sent_channel = "unknown",
                                  !.body = Body(dirty[user]), !.tried = <<>>,
                                  !.due = @ \cup {user}]]
    /\ UNCHANGED <<now, scanVars, retryVars, locks, dirty, settings, reminders, send, proc, ran, ctx>>

\* What a channel may do: send, answer without success, raise, or be of a kind
\* the job has no branch for.
WashOutcomes == {"success", "failure", "raised", "unrecognised"}

\* A channel's error that leaves the loop over the channels.
ChannelRaisedLeaves(more) == "user_failed"

\* Lines 458-459: the channel's error is logged and the loop over the
\* channels goes on, to the next channel or to the record.
ChannelRaised(more) == IF more THEN "send" ELSE "record"

\* Lines 415-459: one pass of the loop over the channels.
WashSend(w, outcome) ==
    /\ wash[w].pc = "send"
    /\ LET r == wash[w]
           kind == r.channels[r.c]
           answered == outcome \in {"success", "failure"}
           sent == IF answered THEN outcome = "success" ELSE r.sent
           more == r.c < Len(r.channels)
           next == IF outcome = "raised" THEN ChannelRaised(more)
                   ELSE IF ~StopAt(sent) /\ more THEN "send" ELSE "record"
       IN /\ (outcome = "unrecognised") <=> (kind \notin ChannelKinds)
          /\ wash' = [wash EXCEPT ![w] =
                [r EXCEPT !.sent = sent,
                          !.sent_channel = IF answered THEN kind ELSE @,
                          !.tried = Append(@, [channel |-> kind, outcome |-> outcome]),
                          !.delivered = IF sent THEN @ \cup {Owner(w)} ELSE @,
                          !.c = IF next = "send" THEN @ + 1 ELSE @,
                          !.pc = next]]
    /\ UNCHANGED <<now, scanVars, retryVars, locks, dirty, settings, reminders, send, proc, ran, ctx>>

\* Lines 461-478: the Notification row is added and committed.
WashRecord(w) ==
    /\ wash[w].pc = "record"
    /\ reminders' = Append(reminders, ReminderRow(Owner(w), wash[w], now))
    /\ wash' = [wash EXCEPT ![w] =
                   WashNext([wash[w] EXCEPT !.notified = IF wash[w].sent THEN @ + 1 ELSE @,
                                            !.log[Owner(w)] = wash[w].tried])]
    /\ UNCHANGED <<now, scanVars, retryVars, locks, dirty, settings, send, proc, ran, ctx>>

\* A per-user handler that ends the loop over the users.
OnUserErrorAborts(r) == [r EXCEPT !.pc = "return"]

\* Lines 480-482: `except Exception: ... continue`.
OnUserError(r) == WashNext(r)

\* Lines 377 or 391 raising: a select of the user's channels or of the
\* earlier reminders fails; the per-user handler takes the error.
WashUserFails(w) ==
    /\ wash[w].pc = "user"
    /\ wash' = [wash EXCEPT ![w] = OnUserError(wash[w])]
    /\ UNCHANGED <<now, scanVars, retryVars, locks, dirty, settings, reminders, send, proc,
                   ran, ctx>>

\* Line 477 raising: the row is not persisted and the count stays; the
\* per-user handler takes the error.
WashRecordFails(w) ==
    /\ wash[w].pc = "record"
    /\ wash' = [wash EXCEPT ![w] = OnUserError([wash[w] EXCEPT !.log[Owner(w)] = wash[w].tried])]
    /\ UNCHANGED <<now, scanVars, retryVars, locks, dirty, settings, reminders, send, proc,
                   ran, ctx>>

\* Lines 484-491 and 340: the job returns its count, closes the session and
\* leaves the lock.
WashReturn(w) ==
    /\ wash[w].pc = "return"
    /\ locks' = Released(locks, WashKey, w)
    /\ wash' = [wash EXCEPT ![w] =
                   [IdleWash EXCEPT !.ran = wash[w].ran,
                                    !.result = [status |-> "ok", notified |-> wash[w].notified]]]
    /\ UNCHANGED <<now, scanVars, retryVars, dirty, settings, reminders, send, proc, ran, ctx>>

\* The wall clock reaches the next cron time of check_wash_reminders, six hours
\* on; every run of the job has ended by then.
WashTick ==
    /\ \A w \in Workers : wash[w].pc \in Resting
    /\ now < EndWash
    /\ now' = now + WashPeriod
    /\ locks' = Expire(locks, now')
    /\ UNCHANGED <<scanVars, retryVars, washVars, send, proc, ran, ctx>>

\* The worker's process dies inside the lock block of line 340: the finally
\* of redis_lock.py never runs and the key stays until its TTL.
WashCrash(w) ==
    /\ wash[w].pc \notin Resting
    /\ locks[WashKey].owner = w
    /\ wash' = [wash EXCEPT ![w].pc = "crashed"]
    /\ UNCHANGED <<now, scanVars, retryVars, locks, dirty, settings, reminders,
                   send, proc, ran, ctx>>

---------------------------------------------------------------------------
(* process_scheduled_notification and reset_schedule_trigger *)

\* The highest job_try arq hands to a run.
MaxJobTry == 3

\* ctx["job_try"] as arq sets it, or NULL when the key is absent.
JobTries == {NULL} \cup (1..MaxJobTry)

\* `if ctx.get("job_try", 1) >= 3`
ResetAfterTries == 3

\* A handler that resets on every failure.
FinalTryAlways(job_try) == TRUE

\* ctx.get("job_try", 1) >= 3
FinalTry(job_try) == (IF job_try = NULL THEN 1 ELSE job_try) >= ResetAfterTries

\* A reset that also switches the schedule off.
ResetMarkerDisables(sch) == [sch EXCEPT !.last_triggered_at = NULL, !.enabled = FALSE]

\* reset_schedule_trigger: `sched.last_triggered_at = None`, committed in a
\* session of its own.
ResetMarker(sch) == [sch EXCEPT !.last_triggered_at = NULL]

\* What the body of process_scheduled_notification may come to: an early
\* return, a ValueError of generate_recommendation, another error before the
\* send, an error of the commit after the send, or the normal end.
ProcessOutcomes ==
    {"not_found", "user_not_found", "no_channels", "value_error", "error", "commit_error",
     "sent"}

\* The calls of the body in their order: the three selects, the
\* recommendation, the send, the commit.
ProcessStages == <<"schedule", "user", "channels", "recommend", "send", "commit">>

StageIndex(stage) == CHOOSE k \in DOMAIN ProcessStages : ProcessStages[k] = stage

\* A body that looks for the channels only after the send.
StopsAtChannelsLast(outcome) ==
    CASE outcome = "not_found" -> "schedule"
      [] outcome = "user_not_found" -> "user"
      [] outcome = "no_channels" -> "commit"
      [] outcome \in {"value_error", "error"} -> "recommend"
      [] outcome = "commit_error" -> "commit"
      [] OTHER -> "none"

\* The call at which the body ends for each outcome: the select behind an
\* early return, the recommendation that raises, the commit that raises; the
\* normal end passes every call.
StopsAt(outcome) ==
    CASE outcome = "not_found" -> "schedule"
      [] outcome = "user_not_found" -> "user"
      [] outcome = "no_channels" -> "channels"
      [] outcome \in {"value_error", "error"} -> "recommend"
      [] outcome = "commit_error" -> "commit"
      [] OTHER -> "none"

\* The body reached the call of this stage.
Reached(outcome, stage) ==
    StopsAt(outcome) = "none" \/ StageIndex(StopsAt(outcome)) >= StageIndex(stage)

\* The body went past the call of this stage.
Passed(outcome, stage) ==
    StopsAt(outcome) = "none" \/ StageIndex(StopsAt(outcome)) > StageIndex(stage)

\* A handler that keeps the error to itself.
ReraisedNothing(e) == NONE

\* Line 238: the bare `raise` hands on the error the handler caught.
Reraised(e) == e

ValueErrorText == "not enough items"

\* An except clause list without `except ValueError`.
ExceptClauseOnlyException(outcome) ==
    IF outcome \in {"value_error", "error", "commit_error"} THEN "handler" ELSE "return"

\* Lines 230-238: a ValueError is answered with a result, any other error
\* goes to the handler that re-raises.
ExceptClause(outcome) ==
    IF outcome \in {"error", "commit_error"} THEN "handler" ELSE "return"

\* The value the run returns.
ProcessResult(outcome) ==
    CASE outcome = "sent" -> [status |-> "sent", reason |-> NONE]
      [] outcome = "value_error" -> [status |-> "skipped", reason |-> ValueErrorText]
      [] outcome \in {"not_found", "user_not_found", "no_channels"} ->
            [status |-> "skipped", reason |-> outcome]
      [] OTHER -> [status |-> "raised", reason |-> NONE]

IdleProc ==
    [pc |-> "idle", job |-> NoResult, job_try |-> NULL, outcome |-> "none",
     recommended |-> FALSE, sent |-> FALSE, reset |-> FALSE, result |-> NoResult,
     rolled_back |-> FALSE, closed |-> FALSE, raised |-> NONE]

\* The run in progress has ended: the history keeps its job and whether it
\* reset the marker.
Ended(reset) ==
    [job_id |-> proc.job.job_id, schedule |-> proc.job.schedule_id, reset |-> reset]

\* arq hands a queued job to a worker, with the number of its try; one run is
\* followed at a time.  Lines 157-166: the session, and the select of the
\* schedule.
ProcessStart(job, job_try) ==
    /\ proc.pc = "idle"
    /\ job \in BagToSet(queue)
    /\ \A r \in ran : r.job_id # job.job_id
    /\ proc' = [IdleProc EXCEPT !.pc = "body", !.job = job, !.job_try = job_try]
    /\ UNCHANGED <<now, scanVars, retryVars, locks, washVars, send, ran, ctx>>

\* Lines 168-232: the body up to a return, or to an error for the handler.
ProcessBody(outcome) ==
    /\ proc.pc = "body"
    /\ LET next == ExceptClause(outcome)
       IN /\ proc' = [proc EXCEPT
                        !.pc = IF next = "handler" THEN "handler" ELSE "idle",
                        !.outcome = outcome,
                        !.recommended = Reached(outcome, "recommend"),
                        !.sent = Passed(outcome, "send"),
                        !.closed = (next # "handler"),
                        !.result = IF next = "handler" THEN NoResult
                                   ELSE ProcessResult(outcome)]
          /\ ran' = IF next = "handler" THEN ran ELSE ran \cup {Ended(FALSE)}
    /\ UNCHANGED <<now, scanVars, retryVars, locks, washVars, send, ctx>>

\* Lines 233-240: rollback, the reset of the marker on the final try, and the
\* error raised again.
ProcessHandler ==
    /\ proc.pc = "handler"
    /\ LET s == proc.job.schedule_id
           final == FinalTry(proc.job_try)
       IN /\ schedules' = IF final THEN [schedules EXCEPT ![s] = ResetMarker(@)]
                          ELSE schedules
          /\ proc' = [proc EXCEPT !.pc = "idle", !.reset = final,
                                  !.rolled_back = TRUE, !.closed = TRUE,
                                  !.raised = Reraised(proc.outcome),
                                  !.result = ProcessResult(proc.outcome)]
          /\ ran' = ran \cup {Ended(final)}
    /\ UNCHANGED <<now, queue, cron_ran, scan, triggered, retryVars, locks, washVars, send, ctx>>

---------------------------------------------------------------------------
(* workers/db.py: init_db, close_db, get_db_session *)

\* The most lifecycle and session calls made on the context.
MaxDbCalls == 5

\* No engine: ctx has no "db_engine" key.
NoEngine == 0

\* A context before on_startup.  db_engine and db_session_factory hold the
\* number of the engine init_db created; disposed counts engine.dispose() per
\* engine, log lists the calls, got is what the last get_db_session did.
NewCtx ==
    [db_engine |-> NoEngine, db_session_factory |-> NoEngine, created |-> 0,
     disposed |-> [e \in 1..MaxDbCalls |-> 0], log |-> <<>>, got |-> "none"]

\* A close_db that leaves the session factory in ctx.
PoppedEngineOnly(c) == [c EXCEPT !.db_engine = NoEngine]

\* Lines 44-45: ctx.pop("db_engine", None); ctx.pop("db_session_factory", None)
Popped(c) == [c EXCEPT !.db_engine = NoEngine, !.db_session_factory = NoEngine]

\* Lines 17-36: a new engine and a session factory bound to it.
InitDb ==
    /\ Len(ctx.log) < MaxDbCalls
    /\ ctx' = [ctx EXCEPT !.created = @ + 1, !.db_engine = ctx.created + 1,
                          !.db_session_factory = ctx.created + 1,
                          !.log = Append(@, "init_db")]
    /\ UNCHANGED <<now, scanVars, retryVars, locks, washVars, send, proc, ran>>

\* Lines 39-48: both keys are popped, and the engine, if there was one, is disposed.
CloseDb ==
    /\ Len(ctx.log) < MaxDbCalls
    /\ LET engine == ctx.db_engine
           c == Popped(ctx)
       IN ctx' = [c EXCEPT !.disposed = IF engine # NoEngine
                                        THEN [@ EXCEPT ![engine] = @ + 1] ELSE @,
                           !.log = Append(@, "close_db")]
    /\ UNCHANGED <<now, scanVars, retryVars, locks, washVars, send, proc, ran>>

\* Lines 51-59: a session from the factory, or RuntimeError without one.
GetDbSession ==
    /\ Len(ctx.log) < MaxDbCalls
    /\ ctx' = [ctx EXCEPT !.got = IF ctx.db_session_factory = NoEngine
                                  THEN "RuntimeError" ELSE "session",
                          !.log = Append(@, "get_db_session")]
    /\ UNCHANGED <<now, scanVars, retryVars, locks, washVars, send, proc, ran>>

---------------------------------------------------------------------------
(* send_notification *)

\* The most channels a user has enabled.
MaxChannels == 4

\* The values of DeliveryStatus a channel's outcome may carry.
DeliveryStatuses == {"sent", "failed", "retrying"}

\* The lists of outcomes dispatcher.send_outfit_notification may return: one
\* per enabled channel.
OutcomeLists == UNION {[1..n -> DeliveryStatuses] : n \in 0..MaxChannels}

\* A success that needs every channel.
AllSent(results) == \A i \in DOMAIN results : results[i] = "sent"

\* any(r.status == DeliveryStatus.SENT for r in results)
AnySent(results) == \E i \in DOMAIN results : results[i] = "sent"

IdleSend == [pc |-> "idle", results |-> <<>>, result |-> NoResult]

\* Lines 55-60: the dispatcher returns the outcomes of the channels.
SendDispatch(results) ==
    /\ send.pc = "idle" /\ send.result = NoResult
    /\ send' = [send EXCEPT !.pc = "commit", !.results = results]
    /\ UNCHANGED <<now, scanVars, retryVars, locks, washVars, proc, ran, ctx>>

\* Lines 60 and 73-78: the dispatcher raises; the job rolls back and raises.
SendDispatchFails ==
    /\ send.pc = "idle" /\ send.result = NoResult
    /\ send' = [send EXCEPT !.result = [status |-> "raised"]]
    /\ UNCHANGED <<now, scanVars, retryVars, locks, washVars, proc, ran, ctx>>

\* Lines 62-71: the commit, then the result.
SendReturn ==
    /\ send.pc = "commit"
    /\ send' = [send EXCEPT !.pc = "idle",
                            !.result = [status |-> "ok", success |-> AnySent(send.results)]]
    /\ UNCHANGED <<now, scanVars, retryVars, locks, washVars, proc, ran, ctx>>

\* Line 62 raising: lines 73-78 roll back and raise.
SendCommitFails ==
    /\ send.pc = "commit"
    /\ send' = [send EXCEPT !.pc = "idle", !.result = [status |-> "raised"]]
    /\ UNCHANGED <<now, scanVars, retryVars, locks, washVars, proc, ran, ctx>>

---------------------------------------------------------------------------
(* The Schedule rows the scans start from *)

\* Rows written by the CRUD layer: Monday 00:00, Sunday 23:59, and Monday 23:59
\* announced the day before; enabled or not.
ScheduleRows ==
    {[day_of_week |-> 0, notification_time |-> <<0, 0>>, notify_day_before |-> FALSE, enabled |-> TRUE],
     [day_of_week |-> 6, notification_time |-> <<23, 59>>, notify_day_before |-> FALSE, enabled |-> TRUE],
     [day_of_week |-> 0, notification_time |-> <<23, 59>>, notify_day_before |-> TRUE, enabled |-> TRUE],
     [day_of_week |-> 0, notification_time |-> <<0, 0>>, notify_day_before |-> FALSE, enabled |-> FALSE]}

\* last_triggered_at: never, or 10, 59 or 70 minutes before StartTime.
InitialMarkers ==
    {NULL, StartTime - 10 * SecondsPerMinute, StartTime - 59 * SecondsPerMinute,
     StartTime - 70 * SecondsPerMinute}

\* The second schedule is always Monday 00:00, never triggered.
DefaultRow ==
    [day_of_week |-> 0, notification_time |-> <<0, 0>>, notify_day_before |-> FALSE, enabled |-> TRUE]

WithMarker(row, m) ==
    [day_of_week |-> row.day_of_week, notification_time |-> row.notification_time,
     notify_day_before |-> row.notify_day_before, enabled |-> row.enabled,
     last_triggered_at |-> m]

\* The scans start from any of these Schedule tables, with an empty queue.
ScannerInit ==
    /\ \E r1 \in ScheduleRows, m1 \in InitialMarkers :
         schedules = [s \in Schedules |->
                         IF s = "s1" THEN WithMarker(r1, m1)
                         ELSE WithMarker(DefaultRow, NULL)]
    /\ queue = EmptyBag
    /\ cron_ran = [w \in Workers |-> NULL]
    /\ scan = [w \in Workers |-> IdleScan]
    /\ triggered = {}

\* A Notification row left in retrying by a failed first send.
RetryingRow(attempts) ==
    [status |-> "retrying", attempts |-> attempts, max_attempts |-> MaxAttempts,
     last_attempt_at |-> NULL, sent_at |-> NULL, error_message |-> NONE]

\* The retries start from two rows in retrying, one with two attempts left and
\* one with a single attempt left.
RetryInit ==
    /\ notifications = [n \in Notifs |-> IF n = "n1" THEN RetryingRow(MaxAttempts - 2)
                                         ELSE RetryingRow(MaxAttempts - 1)]
    /\ locks = [k \in LockKeys |-> Free]
    /\ retry = [w \in Workers |-> IdleRetry]

\* One Schedule table and one Notification table, for the jobs a specification leaves out.
ScannerQuiet ==
    /\ schedules = [s \in Schedules |-> WithMarker(DefaultRow, NULL)]
    /\ queue = EmptyBag
    /\ cron_ran = [w \in Workers |-> NULL]
    /\ scan = [w \in Workers |-> IdleScan]
    /\ triggered = {}

RetryQuiet ==
    /\ notifications = [n \in Notifs |-> RetryingRow(MaxAttempts - 1)]
    /\ locks = [k \in LockKeys |-> Free]
    /\ retry = [w \in Workers |-> IdleRetry]

\* A ClothingItem row that needs washing; every second one has no name.
ItemRow(k) ==
    [name |-> IF k % 2 = 0 THEN NONE ELSE "name" \o ToString(k), type |-> "type" \o ToString(k)]

\* The enabled NotificationSettings of a user, as the select returns them.
ChannelLists ==
    {<<>>, <<"ntfy", "email">>, <<"webhook">>, <<"webhook", "expo_push", "email">>}

\* A reminder an earlier run has sent to the user at time t.
EarlierReminder(user, t) ==
    [user |-> user, channel |-> "email", status |-> "sent", item_count |-> 1,
     body |-> Body(<<ItemRow(1)>>), sent_at |-> t, error_message |-> NONE, created_at |-> t]

\* The numbers of items to wash the first user starts with.
ItemCounts == {0, 1} \cup (SummaryItems..MaxItems)

\* The reminders start from a first user with up to MaxItems items to wash and
\* any of the channel lists, a second user with at most one item and an email
\* channel, and either no reminder yet or one sent to the first user at the
\* cron time 18 hours before.
WashInit ==
    /\ \E n1 \in ItemCounts, n2 \in 0..1, cs \in ChannelLists :
         /\ dirty = [u \in Users |-> IF u = "u1" THEN [k \in 1..n1 |-> ItemRow(k)]
                                     ELSE [k \in 1..n2 |-> ItemRow(k)]]
         /\ settings = [u \in Users |-> IF u = "u1" THEN cs ELSE <<"email">>]
    /\ reminders \in {<<>>, <<EarlierReminder("u1", StartWash - 3 * WashPeriod)>>}
    /\ wash = [w \in Workers |-> IdleWash]

WashQuiet ==
    /\ dirty = [u \in Users |-> <<>>]
    /\ settings = [u \in Users |-> <<>>]
    /\ reminders = <<>>
    /\ wash = [w \in Workers |-> IdleWash]

\* No send_notification and no process_scheduled_notification job has run.
JobsQuiet ==
    /\ send = IdleSend
    /\ proc = IdleProc
    /\ ran = {}
    /\ ctx = NewCtx

Init == now = StartTime /\ ScannerInit /\ RetryQuiet /\ WashQuiet /\ JobsQuiet

Next ==
    \/ Tick
    \/ \E w \in Workers : ScanStart(w)
    \/ \E w \in Workers : ScanSelect(w)
    \/ \E w \in Workers : ScanCommit(w)
    \/ \E w \in Workers : ScanCommitFails(w)
    \/ \E w \in Workers, s \in Schedules, raises \in BOOLEAN : ScanEnqueue(w, s, raises)
    \/ \E w \in Workers : ScanReturn(w)

\* The trigger scanner: every worker runs check_scheduled_notifications each minute.
Spec == Init /\ [][Next]_vars

\* The retries run in the last RetryTicks half minutes of the clock, from
\* Monday 00:00:30 on.
InitRetry ==
    /\ now = EndTime - RetryTicks * TickSeconds
    /\ ScannerQuiet /\ RetryInit /\ WashQuiet /\ JobsQuiet

NextRetry ==
    \/ Tick
    \/ \E w \in Workers : RetryStart(w)
    \/ \E w \in Workers : RetryAcquire(w)
    \/ \E w \in Workers : RetryContended(w)
    \/ \E w \in Workers : RetryRefresh(w)
    \/ \E w \in Workers, outcome \in SendOutcomes : RetrySend(w, outcome)
    \/ \E w \in Workers : RetryCommit(w)
    \/ \E w \in Workers : RetryRelease(w)
    \/ \E w \in Workers : RetryHandler(w)

\* The retry manager: every worker runs retry_failed_notifications.
SpecRetry == InitRetry /\ [][NextRetry]_vars

NextRetryFaulty ==
    \/ NextRetry
    \/ \E w \in Workers : RetryCommitFails(w)
    \/ \E w \in Workers : RetryHandlerCommitFails(w)

\* The retry manager on a datastore whose commits may raise.
SpecRetryFaulty == InitRetry /\ [][NextRetryFaulty]_vars

InitWash ==
    /\ now = StartWash /\ ScannerQuiet /\ WashInit /\ JobsQuiet
    /\ notifications = [n \in Notifs |-> RetryingRow(MaxAttempts - 1)]
    /\ locks = [k \in LockKeys |-> Free]
    /\ retry = [w \in Workers |-> IdleRetry]

NextWash ==
    \/ WashTick
    \/ \E w \in Workers : WashAcquire(w)
    \/ \E w \in Workers : WashLockHeld(w)
    \/ \E w \in Workers : WashSelect(w)
    \/ \E w \in Workers : WashUser(w)
    \/ \E w \in Workers, outcome \in WashOutcomes : WashSend(w, outcome)
    \/ \E w \in Workers : WashRecord(w)
    \/ \E w \in Workers : WashReturn(w)

\* The batch reminder job: every worker runs check_wash_reminders at its cron times.
SpecWash == InitWash /\ [][NextWash]_vars

\* Monday 00:00:00 with a schedule for Monday 00:00 that never triggered, and
\* a disabled one.
InitProcess ==
    /\ now = StartTime + SecondsPerMinute
    /\ schedules = [s \in Schedules |->
                       IF s = "s1" THEN WithMarker(DefaultRow, NULL)
                       ELSE [WithMarker(DefaultRow, NULL) EXCEPT !.enabled = FALSE]]
    /\ queue = EmptyBag
    /\ cron_ran = [w \in Workers |-> NULL]
    /\ scan = [w \in Workers |-> IdleScan]
    /\ triggered = {}
    /\ RetryQuiet /\ WashQuiet /\ JobsQuiet

NextProcess ==
    \/ Next
    \/ \E job \in BagToSet(queue), job_try \in JobTries : ProcessStart(job, job_try)
    \/ \E outcome \in ProcessOutcomes : ProcessBody(outcome)
    \/ ProcessHandler

\* The trigger scanner together with the jobs it enqueues.
SpecProcess == InitProcess /\ [][NextProcess]_vars

\* Two users with one item each; the first has two channels.
InitWashFaulty ==
    /\ now = StartWash /\ ScannerQuiet /\ RetryQuiet /\ JobsQuiet
    /\ dirty = [u \in Users |-> <<ItemRow(1)>>]
    /\ settings = [u \in Users |-> IF u = "u1" THEN <<"ntfy", "email">> ELSE <<"email">>]
    /\ reminders = <<>>
    /\ wash = [w \in Workers |-> IdleWash]

NextWashFaulty ==
    \/ NextWash
    \/ \E w \in Workers : WashUserFails(w)
    \/ \E w \in Workers : WashRecordFails(w)

\* The batch reminder job with datastore calls that may raise for a user.
SpecWashFaulty == InitWashFaulty /\ [][NextWashFaulty]_vars

InitWashCrash ==
    /\ now = StartWash /\ ScannerQuiet /\ RetryQuiet /\ JobsQuiet
    /\ \E n1 \in 0..1, cs \in {<<>>, <<"webhook">>} :
         /\ dirty = [u \in Users |-> IF u = "u1" THEN [k \in 1..n1 |-> ItemRow(k)] ELSE <<>>]
         /\ settings = [u \in Users |-> IF u = "u1" THEN cs ELSE <<>>]
    /\ reminders = <<>>
    /\ wash = [w \in Workers |-> IdleWash]

NextWashCrash ==
    \/ NextWash
    \/ \E w \in Workers : WashCrash(w)

\* The batch reminder job with workers that may die inside the lock.  The
\* clock advances, and arq starts the cron job on every live worker.
SpecWashCrash ==
    /\ InitWashCrash /\ [][NextWashCrash]_vars
    /\ WF_vars(WashTick)
    /\ \A w \in Workers : WF_vars(WashAcquire(w))

InitRetryCycles ==
    /\ now = StartCycles
    /\ ScannerQuiet /\ RetryInit /\ WashQuiet /\ JobsQuiet

NextRetryCycles ==
    \/ RetryCycleTick
    \/ \E w \in Workers : RetryStart(w)
    \/ \E w \in Workers : RetryAcquire(w)
    \/ \E w \in Workers : RetryContended(w)
    \/ \E w \in Workers : RetryRefresh(w)
    \/ \E w \in Workers, outcome \in SendOutcomes : RetrySend(w, outcome)
    \/ \E w \in Workers : RetryCommit(w)
    \/ \E w \in Workers : RetryRelease(w)
    \/ \E w \in Workers : RetryHandler(w)

\* The retry job over several cron minutes, every worker running it in each.
SpecRetryCycles == InitRetryCycles /\ [][NextRetryCycles]_vars

NextRetryTimeout ==
    \/ NextRetry
    \/ \E w \in Workers : RetryTimesOut(w)

\* The retry job where a call inside the lock may raise TimeoutError.
SpecRetryTimeout == InitRetry /\ [][NextRetryTimeout]_vars

InitDbCalls == now = StartTime /\ ScannerQuiet /\ RetryQuiet /\ WashQuiet /\ JobsQuiet

NextDb == InitDb \/ CloseDb \/ GetDbSession

\* Any sequence of init_db, close_db and get_db_session on one context.
SpecDb == InitDbCalls /\ [][NextDb]_vars

InitSend == now = StartTime /\ ScannerQuiet /\ RetryQuiet /\ WashQuiet /\ JobsQuiet

NextSend ==
    \/ \E results \in OutcomeLists : SendDispatch(results)
    \/ SendDispatchFails
    \/ SendReturn
    \/ SendCommitFails

\* One send_notification job, on any list of channel outcomes.
SpecSend == InitSend /\ [][NextSend]_vars

---------------------------------------------------------------------------
(* Properties of check_scheduled_notifications *)

\* The step is an enqueue_job call of worker w.
EnqueueCallBy(w) == scan[w].pc = "enqueue" /\ scan'[w].sent # scan[w].sent

\* The step is w's return from a scan that got as far as the enqueue loop.
ReturnOf(w) == scan[w].pc = "enqueue" /\ scan'[w].pc = "idle"

\* The schedules worker w has called enqueue_job for in its current scan.
CalledFor(w) == {r.schedule : r \in scan[w].sent}

\* Worker w's scan is past its select.
PastSelect(w) == scan[w].pc \in {"commit", "enqueue"} \/ scan[w].result.status # "none"

\* The copies the queue holds of jobs for schedule s keyed with the minute of t.
CopiesFor(s, t) ==
    LET js == {j \in BagToSet(queue) :
                  j.schedule_id = s /\ j.job_id[3][1] = DateOf(t)
                  /\ j.job_id[3][2] = Hour(t) /\ j.job_id[3][3] = Minute(t)}
        Sum[S \in SUBSET js] ==
            IF S = {} THEN 0
            ELSE LET j == CHOOSE x \in S : TRUE IN CopiesIn(j, queue) + Sum[S \ {j}]
    IN Sum[js]

\* C1: every enqueue_job call of a scan is made after that scan's commit, with
\* the marker of every due schedule of the tick already persisted.
C1_CommitPrecedesEnqueue ==
    [][\A w \in Workers :
          EnqueueCallBy(w) =>
              /\ scan[w].committed
              /\ \A s \in scan[w].to_enqueue : schedules[s].last_triggered_at # NULL]_vars

C1_Witness ==
    \E w \in Workers :
        /\ scan[w].committed
        /\ Cardinality(scan[w].to_enqueue) = 2
        /\ Cardinality(scan[w].sent) = 2

\* C2: an enqueue_job call that raises leaves every persisted marker as it was,
\* the scan goes on to call enqueue_job for every other due schedule, and it
\* returns normally with "enqueued" counting the failed schedule too.
C2_EnqueueFailureKeepsMarker ==
    [][\A w \in Workers :
          /\ (EnqueueCallBy(w) /\ scan'[w].enqueue_failures > scan[w].enqueue_failures) =>
                /\ schedules' = schedules
                /\ \A s \in scan[w].to_enqueue : schedules'[s].last_triggered_at # NULL
          /\ ReturnOf(w) =>
                /\ scan'[w].result.status = "ok"
                /\ scan'[w].result.enqueued = Cardinality(scan[w].to_enqueue)
                /\ CalledFor(w) = scan[w].to_enqueue]_vars

C2_Witness ==
    \E w \in Workers :
        /\ scan[w].pc = "idle" /\ scan[w].result.status = "ok"
        /\ scan[w].enqueue_failures = 1
        /\ scan[w].result.enqueued = 2
        /\ \E r \in scan[w].sent : ~r.raised
        /\ \A s \in scan[w].to_enqueue : schedules[s].last_triggered_at # NULL

\* C3: among the schedules a scan finds inside their trigger window, those whose
\* last_triggered_at lies within the hour before now_utc are neither marked nor
\* enqueued, and those never triggered or triggered more than an hour before
\* are marked and, once the scan returns, enqueued.
C3_DedupWindow ==
    \A w \in Workers : \A s \in scan[w].in_window :
        LET m == scan[w].read[s]
            age == scan[w].now_utc - m
        IN /\ (m # NULL /\ age <= DedupHours * SecondsPerHour) =>
                  (s \notin scan[w].to_enqueue /\ s \notin CalledFor(w))
           /\ (m = NULL \/ age > DedupHours * SecondsPerHour) =>
                  /\ s \in scan[w].to_enqueue
                  /\ scan[w].result.status = "ok" =>
                        (scan[w].committed /\ s \in CalledFor(w))

C3_Witness ==
    \E w1, w2 \in Workers :
        /\ scan[w1].result.status = "ok" /\ scan[w2].result.status = "ok"
        /\ "s1" \in scan[w1].to_enqueue
        /\ scan[w1].read["s1"] = StartTime - 70 * SecondsPerMinute
        /\ "s1" \in scan[w2].in_window \ scan[w2].to_enqueue
        /\ scan[w2].read["s1"] # NULL

\* C4: the scan that finds a due schedule with last_triggered_at = null marks it
\* and, by its return, has made exactly one enqueue_job call for it with the
\* marker persisted; a scan that selects after such a scan has returned makes
\* no enqueue_job call for that schedule.
C4_TriggeredOnce ==
    [][\A w \in Workers : \A s \in Schedules :
          /\ (scan[w].pc = "select" /\ scan'[w].pc # "select") =>
                /\ (s \in scan'[w].in_window /\ schedules[s].last_triggered_at = NULL)
                       => s \in scan'[w].to_enqueue
                /\ s \in triggered => s \notin scan'[w].to_enqueue
          /\ (ReturnOf(w) /\ s \in scan[w].to_enqueue) =>
                /\ Cardinality({r \in scan[w].sent : r.schedule = s}) = 1
                /\ schedules[s].last_triggered_at # NULL]_vars

C4_Witness ==
    \E w1, w2 \in Workers :
        /\ w1 # w2
        /\ scan[w1].result.status = "ok" /\ scan[w2].result.status = "ok"
        /\ scan[w1].read["s2"] = NULL /\ "s2" \in scan[w1].to_enqueue
        /\ scan[w2].now_utc = scan[w1].now_utc + SecondsPerMinute
        /\ "s2" \in scan[w2].in_window \ scan[w2].to_enqueue
        /\ scan[w2].sent = {}

\* C5: two enqueue_job calls carry the same _job_id exactly when they are for
\* the same schedule and their scans' now_utc fall in the same UTC minute.
C5_KeyIsScheduleAndMinute ==
    \A w1, w2 \in Workers : \A r1 \in scan[w1].sent : \A r2 \in scan[w2].sent :
        (r1.job_id = r2.job_id)
            <=> (/\ r1.schedule = r2.schedule
                 /\ MinuteIndex(scan[w1].now_utc) = MinuteIndex(scan[w2].now_utc))

C5_Witness ==
    \E w1, w2 \in Workers : \E r1 \in scan[w1].sent : \E r2 \in scan[w2].sent :
        /\ scan[w1].now_utc # scan[w2].now_utc
        /\ r1.job_id = r2.job_id
        /\ \E r3 \in scan[w2].sent : r3.job_id # r1.job_id

\* C6: whatever number of workers call enqueue_job for the same schedule in the
\* same minute, the queue holds exactly one job for that schedule and minute
\* once a call has gone through.
C6_OneJobPerScheduleAndMinute ==
    \A w \in Workers : \A r \in scan[w].sent :
        ~r.raised => CopiesFor(r.schedule, scan[w].now_utc) = 1

C6_Witness ==
    \E w1, w2 \in Workers : \E r1 \in scan[w1].sent : \E r2 \in scan[w2].sent :
        /\ w1 # w2
        /\ r1.schedule = r2.schedule /\ ~r1.raised /\ ~r2.raised
        /\ scan[w1].read[r1.schedule] = NULL /\ scan[w2].read[r1.schedule] = NULL
        /\ MinuteIndex(scan[w1].now_utc) = MinuteIndex(scan[w2].now_utc)
        /\ scan[w1].now_utc # scan[w2].now_utc
        /\ CopiesFor(r1.schedule, scan[w1].now_utc) = 1

\* The minute a job's key names, counted from the epoch.
KeyMinute(job) ==
    job.job_id[3][1] * MinutesPerDay + job.job_id[3][2] * MinutesPerHour + job.job_id[3][3]

\* C7: the queue never holds two distinct follow-up jobs for one schedule whose
\* trigger minutes lie less than one hour apart.
C7_AtMostOncePerHour ==
    \A j1, j2 \in BagToSet(queue) :
        (/\ j1.schedule_id = j2.schedule_id
         /\ Abs(KeyMinute(j1) - KeyMinute(j2)) < DedupHours * MinutesPerHour)
            => j1 = j2

\* The minute of the week at which a schedule is to trigger: its configured
\* day and time, one day earlier when it notifies the day before.
OccurrenceMinute(sch) ==
    LET day == IF sch.notify_day_before
               THEN (sch.day_of_week + DaysPerWeek - 1) % DaysPerWeek
               ELSE sch.day_of_week
    IN day * MinutesPerDay + ScheduleMinutes(sch)

\* The current minute is the occurrence's minute, the one before or the one after.
WithinOneMinute(sch, t) ==
    LET d == (MinuteIndex(t) - OccurrenceMinute(sch)) % MinutesPerWeek
    IN d <= TriggerToleranceMinutes \/ d >= MinutesPerWeek - TriggerToleranceMinutes

\* C8: a scan considers an enabled schedule due exactly when the current UTC
\* minute is within one minute of the schedule's occurrence, midnight included.
C8_DueWithinOneMinute ==
    \A w \in Workers : \A s \in Schedules :
        (PastSelect(w) /\ schedules[s].enabled) =>
            (s \in scan[w].in_window <=> WithinOneMinute(schedules[s], scan[w].now_utc))


---------------------------------------------------------------------------
(* Properties of retry_failed_notifications *)

\* The step is one of worker w's retry job.
RetryStepOf(w) == retry'[w] # retry[w]

\* The step is w's return from retry_failed_notifications.
RetryReturnOf(w) == retry[w].pc # "idle" /\ retry'[w].pc = "idle"

\* No worker but w has started a retry job.
RetriesAlone(w) ==
    \A v \in Workers \ {w} : retry[v].pc = "idle" /\ retry[v].ran = NULL

\* C9: by the end of a retry cycle, every notification whose lock the cycle
\* acquired and whose re-read was still retrying has its persisted attempts one
\* above the value re-read, whatever the send did (stated for a cycle that
\* runs alone, so that every change of the row is the cycle's own).
C9_AttemptsPlusOne ==
    [][\A w \in Workers :
          (RetryReturnOf(w) /\ RetriesAlone(w)) =>
              \A n \in Notifs :
                  retry[w].reread[n] = "retrying" =>
                      notifications'[n].attempts = retry[w].read_attempts[n] + 1]_vars

\* C10: once the re-read inside the lock shows a status other than retrying,
\* no step of that retry job changes the notification's row, sets anything on
\* the session's object for it, or sends it.
C10_AbandonWithoutMutation ==
    [][\A w \in Workers : \A n \in Notifs :
          (RetryStepOf(w) /\ retry'[w].reread[n] \notin {"none", "retrying"}) =>
              /\ notifications'[n] = notifications[n]
              /\ retry'[w].obj[n] = retry'[w].loaded[n]
              /\ n \notin retry'[w].sends]_vars

C10_Witness ==
    \E w \in Workers : \E n \in Notifs :
        /\ retry[w].reread[n] = "sent"
        /\ notifications[n].status = "sent"
        /\ retry[w].pc = "commit"
        /\ Current(w) # n

\* The step is w's commit of line 131, for the record the loop is at.
RetryCommitOf(w) == retry[w].pc = "commit" /\ retry'[w].pc = "release" /\ ~retry'[w].raised

\* The step is w's handler of line 139.
RetryHandlerOf(w) == retry[w].pc = "handler" /\ retry'[w].pc # "handler"

\* The send of the record w is at did not succeed.
SendFailed(w) == retry[w].last_outcome \in {"failed", "failed_no_error", "raised"}

C12_SentOnSuccess ==
    [][\A w \in Workers :
          (RetryCommitOf(w) /\ retry[w].last_outcome = "sent") =>
              /\ notifications'[Current(w)].status = "sent"
              /\ notifications'[Current(w)].sent_at # NULL
              /\ notifications'[Current(w)].attempts = retry[w].read_attempts[Current(w)] + 1]_vars

C12_Witness ==
    /\ notifications["n2"].status = "sent"
    /\ notifications["n2"].sent_at # NULL
    /\ notifications["n2"].attempts = notifications["n2"].max_attempts
    /\ \E w \in Workers : retry[w].result.status = "ok" /\ retry[w].result.retried >= 1

\* C13: when the send of a record fails and attempts after the increment is
\* still below max_attempts, the step that ends the record's processing leaves
\* the row in retrying, where the select of the next retry scan finds it.
C13_StaysRetryingBelowMax ==
    [][\A w \in Workers :
          ((RetryCommitOf(w) \/ RetryHandlerOf(w)) /\ SendFailed(w)
             /\ retry[w].obj[Current(w)].attempts < retry[w].obj[Current(w)].max_attempts
             /\ notifications[Current(w)].status = "retrying") =>
              /\ notifications'[Current(w)].status = "retrying"
              /\ Retryable(notifications'[Current(w)])]_vars

C13_Witness ==
    \E w \in Workers :
        /\ notifications["n1"].status = "retrying"
        /\ notifications["n1"].attempts = MaxAttempts - 1
        /\ notifications["n1"].error_message = "send failed"
        /\ retry[w].pc = "acquire" /\ Current(w) = "n1"
        /\ retry[w].loaded["n1"].attempts = MaxAttempts - 1

\* The step is w finding the lock of its current record held.
ContendedStepOf(w) ==
    /\ retry[w].pc = "acquire" /\ retry'[w] # retry[w]
    /\ ~CanAcquire(locks, RetryKey(Current(w)))

\* The records of w's batch that the loop has passed without acquiring the lock.
Skipped(r) == {r.batch[k] : k \in {k \in 1..Len(r.batch) : k < r.i /\ r.reread[r.batch[k]] = "none"}}

\* C14: finding the lock of a record held, the job neither changes the record
\* nor sends it, reports no error, and goes on with the next record of the
\* batch (or returns normally when there is none); no later step of the job
\* changes or sends a record it skipped.
C14_ContendedIsSkipped ==
    [][\A w \in Workers :
          /\ ContendedStepOf(w) =>
                /\ notifications' = notifications
                /\ locks' = locks
                /\ Current(w) \notin retry[w].sends
                /\ IF retry[w].i < Len(retry[w].batch)
                   THEN /\ retry'[w].pc = "acquire" /\ retry'[w].i = retry[w].i + 1
                        /\ retry'[w].obj = retry[w].obj /\ retry'[w].sends = retry[w].sends
                   ELSE retry'[w].pc = "idle" /\ retry'[w].result.status = "ok"
          /\ RetryStepOf(w) =>
                \A n \in Skipped(retry'[w]) :
                    /\ notifications'[n] = notifications[n]
                    /\ n \notin retry'[w].sends]_vars

C14_Witness ==
    \E w \in Workers :
        /\ retry[w].i = 2 /\ retry[w].pc = "release" /\ ~retry[w].raised
        /\ Skipped(retry[w]) # {}
        /\ Current(w) \in retry[w].sends
        /\ notifications[Current(w)] # RetryingRow(notifications[Current(w)].attempts)

\* C15: a retry job returns only after its loop has reached the last record of
\* the batch, whatever failed on the way (a send raising, a commit raising).
C15_FailureNeverAbortsBatch ==
    [][\A w \in Workers :
          RetryReturnOf(w) => retry[w].i = Len(retry[w].batch)]_vars

---------------------------------------------------------------------------
(* Properties of check_wash_reminders *)

\* The workers that are inside the lock of check_wash_reminders.
InBody == {w \in Workers : wash[w].pc # "idle"}

\* The step is w's start of check_wash_reminders with the lock held by another.
WashContendedStepOf(w) ==
    /\ WashCronDue(w) /\ wash'[w] # wash[w]
    /\ ~CanAcquire(locks, WashKey)

\* The step is w's return from a run that got the lock.
WashReturnOf(w) == wash[w].pc # "idle" /\ wash'[w].pc = "idle"

\* The rows of reminders that belong to the user.
RowsOf(rows, user) == {k \in DOMAIN rows : rows[k].user = user}

\* C16: of the workers that start check_wash_reminders together, one is inside
\* the lock at a time; a worker that finds the lock held returns
\* {"notified": 0, "skipped": "lock_held"} in that same step, while the holder
\* is running the body, and has read and written no Notification row.
C16_OneRunsOthersSkip ==
    [][/\ Cardinality({w \in Workers : wash'[w].pc # "idle"}) <= 1
       /\ \A w \in Workers :
             WashContendedStepOf(w) =>
                 /\ InBody # {} /\ w \notin InBody
                 /\ wash'[w].pc = "idle"
                 /\ wash'[w].result = [status |-> "skipped", notified |-> 0,
                                       skipped |-> "lock_held"]
                 /\ wash'[w].due = {} /\ wash'[w].tried = <<>>
                 /\ reminders' = reminders /\ locks' = locks]_vars

C16_Witness ==
    \E w1, w2 \in Workers :
        /\ wash[w1].result.status = "skipped" /\ wash[w1].ran = now
        /\ wash[w2].pc = "record"
        /\ locks[WashKey].owner = w2

\* C17: no user has two wash_reminder rows created less than 24 hours apart.
C17_OneReminderPerDay ==
    \A j, k \in DOMAIN reminders :
        (j < k /\ reminders[j].user = reminders[k].user) =>
            reminders[k].created_at - reminders[j].created_at >= DedupDays * SecondsPerDay

C17_Witness ==
    /\ Cardinality(RowsOf(reminders, "u1")) = 2
    /\ \E w \in Workers : wash[w].result.status = "skipped"
    /\ \E w \in Workers : wash[w].result.status = "ok" /\ wash[w].ran = now

\* C18: the text of a reminder for N items names the first min(N, 5) of them,
\* by name or else by type, ends in " and N-5 more" exactly when N > 5, and
\* gives the count N.
C18_SummaryNamesFive ==
    \A w \in Workers :
        wash[w].pc \in {"send", "record"} =>
            LET items == dirty[Owner(w)]
                N == Len(items)
                s == wash[w].body.summary
            IN /\ Len(s.names) = Min(N, 5)
               /\ \A k \in 1..Len(s.names) :
                     s.names[k] = IF items[k].name # NONE THEN items[k].name ELSE items[k].type
               /\ (N > 5) => (s.suffix = <<" and ", N - 5, " more">>)
               /\ (N <= 5) => (s.suffix = <<>>)
               /\ wash[w].body.count = N

C18_Witness ==
    \E k \in DOMAIN reminders :
        /\ reminders[k].item_count = 6
        /\ Len(reminders[k].body.summary.names) = 5
        /\ reminders[k].body.summary.suffix = <<" and ", 1, " more">>

\* A channel of the list answered with success.
Succeeded(tried) == \E i \in DOMAIN tried : tried[i].outcome = "success"

\* C19: when a run returns, every owner who had an enabled channel and no
\* reminder of the last 24 hours when the run came to them has exactly one row
\* created by the run, sent when a channel succeeded and failed otherwise;
\* the run has created no row for anyone else.
C19_ExactlyOneRecord ==
    [][\A w \in Workers :
          (WashReturnOf(w) /\ wash[w].pc = "return") =>
              \A u \in Users :
                  LET mine == {k \in RowsOf(reminders, u) : reminders[k].created_at = now}
                      before == {k \in RowsOf(reminders, u) :
                                    /\ reminders[k].created_at < now
                                    /\ reminders[k].created_at >= now - DedupDays * SecondsPerDay}
                  IN /\ (dirty[u] # <<>> /\ settings[u] # <<>> /\ before = {}) =>
                            Cardinality(mine) = 1
                     /\ (u \in wash[w].due) =>
                            \A k \in mine :
                                reminders[k].status =
                                    IF Succeeded(wash[w].log[u]) THEN "sent" ELSE "failed"
                     /\ (u \notin wash[w].due) => wash[w].log[u] = <<>>]_vars

C19_Witness ==
    \E w \in Workers :
        /\ wash[w].pc = "return"
        /\ wash[w].due = {"u1", "u2"}
        /\ \E k \in RowsOf(reminders, "u1") :
              /\ reminders[k].created_at = now /\ reminders[k].status = "failed"
              /\ reminders[k].channel = "unknown"
        /\ \E k \in RowsOf(reminders, "u2") :
              reminders[k].created_at = now /\ reminders[k].status = "sent"

\* The step is w's write of the Notification row of the user it is at.
WashRecordOf(w) == wash[w].pc = "record" /\ wash'[w].pc # "record"

\* C20: the channels are tried one at a time in the order selected, none after
\* one has succeeded; the row records as channel the one that succeeded, and
\* when none succeeded it is failed, with sent_at null and error_message
\* "All channels failed".
C20_StopAtFirstSuccess ==
    [][\A w \in Workers :
          LET tried == wash'[w].tried
          IN /\ \A i \in DOMAIN tried :
                   /\ tried[i].channel = wash'[w].channels[i]
                   /\ i < Len(tried) => tried[i].outcome # "success"
             /\ WashRecordOf(w) =>
                   LET row == reminders'[Len(reminders')]
                       last == wash[w].tried[Len(wash[w].tried)]
                   IN IF Succeeded(wash[w].tried)
                      THEN /\ row.status = "sent" /\ row.channel = last.channel
                           /\ last.outcome = "success" /\ row.sent_at # NULL
                      ELSE /\ row.status = "failed" /\ row.sent_at = NULL
                           /\ row.error_message = "All channels failed"
                           /\ Len(wash[w].tried) = Len(wash[w].channels)]_vars

C20_Witness ==
    /\ \E k \in DOMAIN reminders :
          /\ reminders[k].status = "sent" /\ reminders[k].channel = "expo_push"
          /\ settings[reminders[k].user] = <<"webhook", "expo_push", "email">>
    /\ \E k \in DOMAIN reminders :
          /\ reminders[k].status = "failed" /\ reminders[k].channel = "email"
          /\ reminders[k].sent_at = NULL
          /\ reminders[k].error_message = "All channels failed"

---------------------------------------------------------------------------
(* Properties of send_notification *)

\* C21: a send_notification job that returns reports success = true exactly
\* when at least one channel's outcome is SENT: false on an empty list and
\* when no channel was sent, true whatever the other channels did.
C21_SuccessIffSomeChannelSent ==
    send.result.status = "ok" =>
        LET sent == {i \in DOMAIN send.results : send.results[i] = "sent"}
        IN /\ send.result.success <=> (Cardinality(sent) >= 1)
           /\ (send.results = <<>>) => ~send.result.success

C21_Witness ==
    /\ send.result.status = "ok" /\ send.result.success
    /\ Len(send.results) = 3
    /\ send.results[1] = "failed" /\ send.results[2] = "sent" /\ send.results[3] = "failed"

---------------------------------------------------------------------------
(* Properties of distributed_lock *)

\* The step in which worker w leaves the lock block of its current record.
RetryReleaseOf(w) == retry[w].pc = "release" /\ retry'[w].pc # "release"

\* The key is owned by a worker other than w.
OwnedByOther(ls, k, w) == ls[k].owner \notin {w, NoWorker}

\* C22: when worker w leaves distributed_lock after its lock expired and
\* another worker acquired the key, the release changes nothing in the lock
\* table (the other worker still owns the key with the same expiry), and w
\* goes on as after any release: to the handler of an error raised inside the
\* block, or to the next record, never to the job's error return.
C22_StaleReleaseIsHarmless ==
    [][\A w \in Workers :
         (RetryReleaseOf(w) /\ OwnedByOther(locks, RetryKey(Current(w)), w)) =>
            /\ locks' = locks
            /\ OwnedByOther(locks', RetryKey(Current(w)), w)
            /\ retry'[w].result.status # "error"
            /\ IF retry[w].raised THEN retry'[w].pc = "handler"
               ELSE retry'[w].pc \in {"acquire", "idle"}]_vars

C22_Witness ==
    \E w \in Workers : \E n \in retry[w].lost :
        /\ n \in retry[w].locked
        /\ OwnedByOther(locks, RetryKey(n), w)

\* Worker w died holding the global lock, another worker is alive, and a cron
\* time is still to come.
CrashedHolding(w) ==
    /\ wash[w].pc = "crashed"
    /\ locks[WashKey].owner = w
    /\ \E w2 \in Workers \ {w} : wash[w2].pc # "crashed"
    /\ now < EndWash

\* Another worker acquired the global lock at a cron time after w's run.
AcquiredAfter(w) ==
    \E w2 \in Workers \ {w} :
        /\ locks[WashKey].owner = w2
        /\ wash[w2].ran > wash[w].ran

\* C23: when a worker died holding the global lock and never released it,
\* the key expires with its TTL, and the non-blocking acquire of another
\* live worker at a later cron time eventually succeeds.
C23_CrashedLockIsAcquiredAgain ==
    \A w \in Workers : CrashedHolding(w) ~> AcquiredAfter(w)

C23_Witness ==
    \E w \in Workers : wash[w].pc = "crashed" /\ AcquiredAfter(w)

\* C24: a record is skipped as "another worker holds the lock" only when this
\* run did not acquire its lock.
C24_SkippedOnlyWhenNotAcquired ==
    \A w \in Workers : retry[w].skipped_locked \cap retry[w].locked = {}

\* The step of worker w writes the row of notification n.
WritesNotification(w, n) ==
    /\ RetryStepOf(w)
    /\ notifications'[n] # notifications[n]

\* The positions of the loop inside the `async with` block.
InsideLock == {"refresh", "send", "commit"}

\* C25: every write of retry_failed_notifications to a notification's row is
\* made by a step inside the lock block of that record, before the release.
C25_WritesInsideLock ==
    [][\A w \in Workers : \A n \in Notifs :
         WritesNotification(w, n) => (retry[w].pc \in InsideLock /\ Current(w) = n)]_vars

---------------------------------------------------------------------------
(* Properties of the dedup marker *)

\* C27: a last_triggered_at that is set never becomes null again and never
\* moves to an earlier time: every write keeps it or moves it forward.
C27_MarkerNeverGoesBack ==
    [][\A s \in Schedules :
         schedules[s].last_triggered_at # NULL =>
            schedules'[s].last_triggered_at >= schedules[s].last_triggered_at]_vars

---------------------------------------------------------------------------
(* Properties of process_scheduled_notification and reset_schedule_trigger *)

\* The step in which the scan of w commits its mark on schedule s.
ScanCommitOf(w, s) ==
    /\ scan[w].pc = "commit" /\ scan'[w].pc = "enqueue"
    /\ s \in scan[w].to_enqueue

\* The step in which the handler of a failed run ends the run.
ProcessHandlerOf == proc.pc = "handler" /\ proc'.pc # "handler"

\* The run at the handler is for schedule s and on a try from the third on.
FailedOnFinalTry(s) ==
    /\ proc.job.schedule_id = s
    /\ proc.job_try # NULL /\ proc.job_try >= ResetAfterTries

\* C26: a Schedule row changes only in two ways: the commit of a scan that
\* marked it sets last_triggered_at to the scan's now_utc, and the handler of
\* a run of process_scheduled_notification that failed on a try from the
\* third on sets last_triggered_at to null; no other field ever changes.
C26_OnlyScannerSetsATime ==
    [][\A s \in Schedules :
         schedules'[s] # schedules[s] =>
            \/ \E w \in Workers :
                 /\ ScanCommitOf(w, s)
                 /\ schedules'[s] = [schedules[s] EXCEPT !.last_triggered_at = scan[w].now_utc]
            \/ /\ ProcessHandlerOf /\ FailedOnFinalTry(s)
               /\ schedules'[s] = [schedules[s] EXCEPT !.last_triggered_at = NULL]]_vars

C26_Witness ==
    \E r \in ran :
        /\ r.reset /\ r.schedule \in triggered
        /\ schedules[r.schedule].last_triggered_at = NULL

\* C26 as stated: a Schedule row changes only in the commit of a scan.
C26_OnlyScannerWrites ==
    [][\A s \in Schedules :
         schedules'[s] # schedules[s] => \E w \in Workers : ScanCommitOf(w, s)]_vars

\* C28: when a run of process_scheduled_notification fails with an error
\* other than ValueError, the handler sets the schedule's last_triggered_at to
\* null if job_try is 3 or more, so that the dedup test no longer holds the
\* schedule back; with job_try below 3 or absent it leaves every Schedule row
\* as it is.  Either way the error is raised again.
C28_ResetOnFinalTry ==
    [][ProcessHandlerOf =>
         LET s == proc.job.schedule_id
         IN /\ proc'.result.status = "raised"
            /\ IF proc.job_try # NULL /\ proc.job_try >= ResetAfterTries
               THEN /\ schedules'[s].last_triggered_at = NULL
                    /\ ~TriggeredRecently(schedules'[s], now)
                    /\ proc'.reset
               ELSE /\ schedules' = schedules
                    /\ ~proc'.reset]_vars

C28_Witness ==
    /\ proc.pc = "idle" /\ proc.outcome = "error" /\ proc.job_try = ResetAfterTries
    /\ proc.reset /\ proc.result.status = "raised"
    /\ schedules[proc.job.schedule_id].last_triggered_at = NULL

\* Job j is keyed with a minute of the trigger window of the occurrence the
\* job of run r was enqueued for: the two minutes are at most one window apart.
SameOccurrence(r, j) ==
    Abs(KeyMinute(j) - KeyMinute(r)) <= 2 * TriggerToleranceMinutes

\* The jobs the step adds to the queue.
NewJobs == BagToSet(queue') \ BagToSet(queue)

\* C29: the queue accepts no further job for a schedule within the trigger
\* window of an occurrence whose job has failed and reset the marker.
C29_NoRetriggerInSameOccurrence ==
    [][\A j \in NewJobs :
         ~\E r \in ran : r.schedule = j.schedule_id /\ r.reset /\ SameOccurrence(r, j)]_vars

\* C30: a run whose recommendation raises ValueError ends without raising,
\* returns {"status": "skipped", "reason": <the message>}, has sent nothing,
\* and leaves every Schedule row as it is, whatever job_try is.
C30_ValueErrorIsSkipped ==
    [][(proc.pc = "body" /\ proc'.pc # "body" /\ proc'.outcome = "value_error") =>
          /\ proc'.pc = "idle"
          /\ proc'.result = [status |-> "skipped", reason |-> ValueErrorText]
          /\ ~proc'.sent /\ ~proc'.reset
          /\ schedules' = schedules
          /\ \E r \in ran' \ ran : ~r.reset]_vars

C30_Witness ==
    /\ proc.pc = "idle" /\ proc.outcome = "value_error" /\ proc.job_try = ResetAfterTries
    /\ proc.result.status = "skipped" /\ ~proc.sent
    /\ schedules[proc.job.schedule_id].last_triggered_at # NULL

\* C31: a run that meets an error other than ValueError ends with the
\* transaction rolled back and the session closed, raises the error it met,
\* and returns neither a "sent" nor a "skipped" result.
C31_ErrorIsRolledBackAndRaised ==
    [][ProcessHandlerOf =>
          /\ proc.outcome \in {"error", "commit_error"}
          /\ proc'.pc = "idle"
          /\ proc'.rolled_back /\ proc'.closed
          /\ proc'.raised = proc.outcome
          /\ proc'.result.status \notin {"sent", "skipped"}]_vars

C31_Witness ==
    /\ proc.pc = "idle" /\ proc.outcome = "commit_error" /\ proc.job_try = 1
    /\ proc.rolled_back /\ proc.closed /\ proc.raised = "commit_error"
    /\ proc.result.status = "raised"

\* The run ends with one of the three early returns.
EarlyReturns == {"not_found", "user_not_found", "no_channels"}

\* C32: a run that finds no schedule, no active user or no enabled channel
\* returns {"status": "skipped"} with the reason not_found, user_not_found or
\* no_channels, and has called neither the recommendation nor the send.
C32_EarlyReturnsSkip ==
    [][(proc.pc = "body" /\ proc'.pc # "body" /\ proc'.outcome \in EarlyReturns) =>
          /\ proc'.pc = "idle"
          /\ proc'.result = [status |-> "skipped", reason |-> proc'.outcome]
          /\ ~proc'.recommended /\ ~proc'.sent
          /\ proc'.raised = NONE
          /\ schedules' = schedules]_vars

C32_Witness ==
    /\ proc.pc = "idle" /\ proc.outcome = "no_channels"
    /\ proc.result = [status |-> "skipped", reason |-> "no_channels"]
    /\ ~proc.recommended /\ ~proc.sent /\ proc.closed

---------------------------------------------------------------------------
(* Properties of workers/db.py *)

\* The lifecycle calls made so far, in their order.
Lifecycle(log) == SelectSeq(log, LAMBDA c : c \in {"init_db", "close_db"})

\* The most recent lifecycle call was init_db.
LastWasInit(log) ==
    Lifecycle(log) # <<>> /\ Lifecycle(log)[Len(Lifecycle(log))] = "init_db"

\* The step is a call of get_db_session.
GetDbSessionOf == Len(ctx'.log) = Len(ctx.log) + 1 /\ ctx'.log[Len(ctx'.log)] = "get_db_session"

\* C33: get_db_session returns a session exactly when the most recent
\* lifecycle call on the context was init_db, and raises RuntimeError before
\* the first init_db and after a close_db; no engine is disposed twice, so a
\* repeated close_db disposes nothing.
C33_SessionOnlyAfterInit ==
    [][/\ GetDbSessionOf =>
            ctx'.got = IF LastWasInit(ctx.log) THEN "session" ELSE "RuntimeError"
       /\ \A e \in DOMAIN ctx'.disposed : ctx'.disposed[e] <= 1]_vars

C33_Witness ==
    /\ Len(ctx.log) = 5
    /\ ctx.log[1] = "init_db" /\ ctx.log[2] = "get_db_session"
    /\ ctx.log[3] = "close_db" /\ ctx.log[4] = "close_db" /\ ctx.log[5] = "get_db_session"
    /\ ctx.got = "RuntimeError" /\ ctx.disposed[1] = 1

---------------------------------------------------------------------------
(* Further properties of check_scheduled_notifications *)

\* The step in which the commit of the scan of w raises.
ScanCommitFailsOf(w) == scan[w].pc = "commit" /\ scan'[w].result.status = "error"

\* The step in which the scan of w runs its select and its marking loop.
ScanSelectOf(w) == scan[w].pc = "select" /\ scan'[w].pc # "select"

\* C34: a scan whose commit raises enqueues nothing and leaves every
\* persisted Schedule row and the queue as they were; and every scan marks
\* each selected schedule that is in its trigger window and whose persisted
\* last_triggered_at is not within the last hour, so the schedule left
\* unmarked by the failure is due again at the next scan inside the window.
C34_FailedCommitRetriesNextTick ==
    [][/\ \A w \in Workers :
            ScanCommitFailsOf(w) =>
               /\ queue' = queue /\ schedules' = schedules
               /\ scan'[w].sent = {} /\ scan'[w].pc = "idle"
       /\ \A w \in Workers : \A s \in Schedules :
            (/\ ScanSelectOf(w) /\ s \in scan'[w].in_window
             /\ ~TriggeredRecently(schedules[s], scan[w].now_utc))
               => s \in scan'[w].to_enqueue]_vars

C34_Witness ==
    \E w1, w2 \in Workers : \E s \in Schedules :
        /\ scan[w1].result.status = "error" /\ s \in scan[w1].to_enqueue
        /\ MinuteIndex(scan[w2].now_utc) = MinuteIndex(scan[w1].now_utc) + 1
        /\ s \in scan[w2].to_enqueue /\ scan[w2].committed
        /\ schedules[s].last_triggered_at = scan[w2].now_utc
        /\ \E j \in BagToSet(queue) : j = [function |-> "process_scheduled_notification",
                                          schedule_id |-> s,
                                          job_id |-> JobId(s, scan[w2].now_utc)]
        /\ \A j \in BagToSet(queue) : j.job_id # JobId(s, scan[w1].now_utc)

\* The schedule is enabled and its day is the day of t, or, when it notifies
\* the day before, the day after the day of t, Monday (0) following Sunday (6).
EnabledForDay(sch, t) ==
    LET today == Weekday(t)
        tomorrow == IF today = DaysPerWeek - 1 THEN 0 ELSE today + 1
    IN /\ sch.enabled
       /\ sch.day_of_week = IF sch.notify_day_before THEN tomorrow ELSE today

\* C35: a scan selects exactly the schedules that are enabled and whose day
\* rule matches its now_utc, marks and enqueues only schedules among them,
\* and no other step changes a Schedule row or adds a job: a disabled schedule
\* or one whose day rule does not match keeps its last_triggered_at and gets
\* no job.
C35_OnlyEnabledMatchingDay ==
    [][/\ \A w \in Workers :
            ScanSelectOf(w) =>
               /\ scan'[w].schedules =
                     {s \in Schedules : EnabledForDay(schedules[s], scan[w].now_utc)}
               /\ scan'[w].to_enqueue \subseteq scan'[w].schedules
       /\ \A s \in Schedules :
            schedules'[s] # schedules[s] =>
               \E w \in Workers :
                  ScanCommitOf(w, s) /\ EnabledForDay(schedules[s], scan[w].now_utc)
       /\ \A j \in NewJobs :
            \E w \in Workers :
               /\ scan[w].pc = "enqueue" /\ j.job_id = JobId(j.schedule_id, scan[w].now_utc)
               /\ EnabledForDay(schedules[j.schedule_id], scan[w].now_utc)]_vars

C35_Witness ==
    /\ schedules["s1"].notify_day_before /\ schedules["s1"].day_of_week = 0
    /\ schedules["s1"].last_triggered_at # NULL
    /\ Weekday(schedules["s1"].last_triggered_at) = DaysPerWeek - 1
    /\ \E j \in BagToSet(queue) : j.schedule_id = "s1"
    /\ schedules["s2"].last_triggered_at = NULL

---------------------------------------------------------------------------
(* Further properties of check_wash_reminders *)

\* The step in which a channel's send raises for worker w.
ChannelRaisesOf(w) ==
    /\ wash[w].pc = "send" /\ Len(wash'[w].tried) = Len(wash[w].tried) + 1
    /\ wash'[w].tried[Len(wash'[w].tried)].outcome = "raised"

\* C36: when a channel's send raises, the failure stays with that channel:
\* the loop goes on to the next enabled channel if there is one and to the
\* user's record otherwise, the same user is still being handled, nothing
\* counts as sent, and the run does not end.
C36_ChannelErrorStaysWithChannel ==
    [][\A w \in Workers :
          ChannelRaisesOf(w) =>
             /\ wash'[w].u = wash[w].u
             /\ ~wash'[w].sent /\ wash'[w].notified = wash[w].notified
             /\ wash'[w].result = NoResult
             /\ IF wash[w].c < Len(wash[w].channels)
                THEN wash'[w].pc = "send" /\ wash'[w].c = wash[w].c + 1
                ELSE wash'[w].pc = "record"]_vars

C36_Witness ==
    \E w \in Workers : \E k \in DOMAIN reminders :
        /\ wash[w].log[reminders[k].user] =
              <<[channel |-> "ntfy", outcome |-> "raised"],
                [channel |-> "email", outcome |-> "success"]>>
        /\ reminders[k].status = "sent" /\ reminders[k].channel = "email"
        /\ reminders[k].created_at = wash[w].ran

\* The users the run of w went on to send to and for whom it has written a
\* row as sent.
RecordedSent(w) ==
    {u \in wash[w].due : \E k \in DOMAIN reminders :
        /\ reminders[k].user = u /\ reminders[k].created_at = wash[w].ran
        /\ reminders[k].status = "sent"}

\* C37: an error while handling one user leaves the run going with the next
\* user: the run still visits every user of its list and returns without
\* error, and its "notified" count is the number of users whose reminder was
\* sent and whose Notification row was committed.
C37_UserFailureIsIsolated ==
    [][\A w \in Workers :
          /\ (wash[w].pc = "record" /\ wash'[w].pc # "record" /\ reminders' = reminders) =>
                /\ wash'[w].notified = wash[w].notified
                /\ wash'[w].pc = IF wash[w].u < Len(wash[w].order) THEN "user" ELSE "return"
                /\ wash'[w].u = IF wash[w].u < Len(wash[w].order) THEN wash[w].u + 1
                                ELSE wash[w].u
          /\ (wash[w].pc = "return" /\ wash'[w].pc = "idle") =>
                /\ wash[w].u = Len(wash[w].order)
                /\ wash'[w].result = [status |-> "ok",
                                      notified |-> Cardinality(RecordedSent(w))]]_vars

C37_Witness ==
    \E w \in Workers :
        /\ wash[w].pc = "return" /\ wash[w].order = <<"u1", "u2">>
        /\ wash[w].delivered = {"u1", "u2"}
        /\ RecordedSent(w) = {"u2"}
        /\ wash[w].notified = 1

\* C37 as stated: the count a run returns is the number of users a channel
\* has answered with success.
C37_CountsEveryUserSentTo ==
    [][\A w \in Workers :
          (wash[w].pc = "return" /\ wash'[w].pc = "idle") =>
             wash'[w].result.notified = Cardinality(wash[w].delivered)]_vars

---------------------------------------------------------------------------
(* Mutual exclusion of the retries *)

\* Worker w is between acquiring the lock of n and committing.
InSection(w, n) ==
    /\ retry[w].pc \in {"refresh", "send", "commit"}
    /\ Current(w) = n

\* The lock w acquired has not reached its TTL.
WithinTTL(w) == now < retry[w].acquired_at + RetryLockTimeout

\* Every lock of the run was acquired at the first cron minute or later: until
\* the TTL has passed since then, no lock has outlived its TTL.
NoLockOutlived == now < (EndTime - RetryTicks * TickSeconds) + RetryLockTimeout

\* The attempts of the rows the retries start from.
InitialAttempts(n) == IF n = "n1" THEN MaxAttempts - 2 ELSE MaxAttempts - 1

---------------------------------------------------------------------------
(* distributed_lock as the retries use it *)

\* Worker w leaves the guarded block: by its end, by `continue`, or by an error.
LeavesBlockOf(w) ==
    retry[w].pc \in {"refresh", "send", "commit"} /\ retry'[w].pc # retry[w].pc
        /\ retry'[w].pc \notin {"send", "commit"}

\* C39: every exit of the guarded block, by its end or by an error, goes
\* through the release, which frees the key the worker still owns and no
\* other; after the release an error raised in the block is the one the
\* caller's handlers receive (TimeoutError at line 133, any other at line
\* 139), and a block that ended goes on with the loop.  When the lock was
\* not acquired, the block is not run and no release is issued: the lock
\* table is left as it was and TimeoutError reaches line 133.
C39_ReleasedOnEveryExit ==
    [][\A w \in Workers :
          /\ LeavesBlockOf(w) => retry'[w].pc = "release" /\ locks' = locks
          /\ RetryReleaseOf(w) =>
                LET k == RetryKey(Current(w))
                IN /\ locks'[k].owner # w
                   /\ (locks[k].owner = w) => locks'[k] = Free
                   /\ \A j \in LockKeys \ {k} : locks'[j] = locks[j]
                   /\ IF retry[w].raised THEN retry'[w].pc = "handler" /\ retry'[w].raised
                      ELSE /\ retry'[w].pc \in {"acquire", "idle"}
                           /\ (retry[w].last_outcome = "timeout" /\ retry'[w].pc = "acquire")
                                 => Current(w) \in retry'[w].skipped_locked
          /\ ContendedStepOf(w) =>
                /\ locks' = locks
                /\ retry'[w].pc \in {"acquire", "idle"}
                /\ retry'[w].pc = "acquire" =>
                      /\ retry'[w].locked = retry[w].locked
                      /\ retry'[w].reread = retry[w].reread
                      /\ retry'[w].sends = retry[w].sends
                      /\ Current(w) \in retry'[w].skipped_locked]_vars

\* A send has raised inside the block, the lock is free again and the error
\* is at the handler of line 139.
C39_Witness ==
    \E w \in Workers :
        /\ retry[w].pc = "handler" /\ retry[w].raised
        /\ retry[w].last_outcome = "raised"
        /\ Current(w) \in retry[w].locked
        /\ locks[RetryKey(Current(w))] = Free

---------------------------------------------------------------------------
(* The retries over several cron minutes *)

\* The cron minutes of the retries that are over.
CyclesDone == (now - StartCycles) \div (RetryEvery * SecondsPerMinute)

Terminal(row) == row.status \in {"sent", "failed"}

\* C40: a notification that starts in retrying with attempts below
\* max_attempts is sent or failed once max_attempts - attempts retry cycles
\* are over, every worker having run the job in each of them, whatever the
\* sends have done.
C40_TerminalWithinAttemptsLeft ==
    \A n \in Notifs :
        CyclesDone >= MaxAttempts - InitialAttempts(n) => Terminal(notifications[n])

=============================================================================
